---- MODULE Spec2Model ----
(***************************************************************************)
(* Dust: cross-chain dust consolidation.                                   *)
(*                                                                         *)
(* DustConsolidator (contracts/src-ccip/GasPaymaster.sol, second contract) *)
(* is the per-job state machine; GasPaymaster (same file, first contract)  *)
(* is the gas-sponsorship ledger.  Every external function is one action:  *)
(* a transaction either runs to completion or reverts, and a revert leaves *)
(* the whole contract state as it was (EVM atomicity).  A function is an    *)
(* operator from the storage before the call and the arguments to the      *)
(* outcome [err, st]: err is "ok" or the error the call reverts with, st   *)
(* the storage after the call (the storage before it when it reverts).     *)
(* An action is a call that does not revert.                               *)
(*                                                                         *)
(* Units.  Token amounts are 6-decimal USD units, as in the contract       *)
(* (MIN_CONSOLIDATION_USD = 1e6).  uint256 arithmetic is checked           *)
(* (Solidity ^0.8): a sum or product above MaxUint reverts with "Panic".   *)
(* MaxUint stands for type(uint256).max; it is the largest integer the     *)
(* model checker computes with.                                            *)
(***************************************************************************)
EXTENDS Integers, Sequences, FiniteSets, TLC

\* ------------------------------------------------------------------ bounds
MaxJobs == 1            \* jobs created in one behaviour
MaxJobsPerUser == 2     \* jobs created in one behaviour of SpecJobIds
MaxMvpJobs == 2         \* jobs recorded by DustConsolidatorMVP in one behaviour
MaxDeliveries == 2      \* accepted cross-chain deliveries in one behaviour
MaxSwaps == 2           \* successful swaps in one behaviour
MaxTime == 2            \* block.timestamp runs over 1..MaxTime
MaxSends == 2           \* messages DustSender sends in one behaviour
MaxChainCount == 2      \* chains with dust in a scan summary
MaxRecoverable == 250   \* totalRecoverable of a scan summary, in cents
MaxGasEstimate == 60    \* totalGasEstimate of a scan summary, in cents
MaxSponsorships == 2    \* successful sponsorGas calls in one behaviour
MaxPool == 12           \* totalGasPool stays at or below this
MaxTotalSponsored == 12 \* totalGasSponsored stays at or below this

\* --------------------------------------------------------------- constants
FEE_DENOMINATOR == 10000
MAX_SERVICE_FEE == 500
MIN_CONSOLIDATION_USD == 1000000
minProfitableUSD == 100  \* DUST_CONFIG.minProfitableUSD, in cents
MaxUint == 2147483647

\* ---------------------------------------------------------------- addresses
Zero == "0x0"
Owner == "owner"
BackendKey == "backendKey"
Mallory == "mallory"
This == "consolidator"
Users == {"alice"}
Callers == {Owner, BackendKey, Mallory}
Holders == {This, Owner} \cup Users

usdc == "USDC"
weth == "WETH"
dustToken == "DUST"
Tokens == {usdc, weth, dustToken}

Chains == {1, 2}
SenderOf(chain) == IF chain = 1 THEN "sender1" ELSE "sender2"

\* ------------------------------------------------------------ input domains
TargetAssets == {usdc, weth, dustToken}
JobUsers == Users \cup {Zero}
ExpectedAmounts == {0, 100}
SourceChainLists == {<<1, 2>>}
\* what the source chains' DustSenders bridge: (chain selector, token, amount)
Deliveries == {<<1, usdc, 400000>>, <<1, usdc, 600050>>, <<2, dustToken, 600050>>}
MessageSenders == {"sender1", "sender2"}
SwapAmounts == {600050}
SwapOutputs == {940000, 1000050}
MinAmountsOut == {950000}
GasCosts == {2, 1000000, MaxUint}
FeeChoices == {0, 501}
SwapFromTokens == {dustToken}
AdminCallers == {Owner, Mallory}
WithdrawTokens == {usdc}
WithdrawAmounts == {400000}

\* --------------------------------------------------------------- job status
Created == "Created"
Receiving == "Receiving"
Swapping == "Swapping"
Settling == "Settling"
Complete == "Complete"
Failed == "Failed"
Refunded == "Refunded"
JobStatus == {Created, Receiving, Swapping, Settling, Complete, Failed, Refunded}

VARIABLES
    dc,     \* DustConsolidator: storage, ERC-20 state it touches, emitted events
    pm,     \* GasPaymaster: storage and ether balance
    now,    \* block.timestamp
    ag,     \* backend: one call of getBestQuote / getSwapCalldata in progress
    mvp,    \* storage of DustConsolidatorMVP
    ds,     \* DustSender on source chain 1: storage, balances, its router
    est     \* backend: one scan summary and the fee estimate made from it

vars == <<dc, pm, now, ag, mvp, ds, est>>

\* ------------------------------------------------------- checked arithmetic
AddOk(a, b) == a <= MaxUint - b
MulOk(a, b) == b = 0 \/ a <= MaxUint \div b

\* ------------------------------------------------------------------- jobs
\* keccak256(abi.encodePacked(user, block.timestamp, userJobs[user].length)):
\* the hash is injective on the packed triple
JobIdOf(user, ts, n) == <<user, ts, n>>
AllJobIds == {JobIdOf(u, t, n) : u \in Users, t \in 1..MaxTime, n \in 0..(MaxJobs - 1)}
\* the keys of the jobs mapping that a behaviour can write
JobKeys == {JobIdOf(u, t, n) : u \in Users, t \in 1..MaxTime, n \in 0..MaxJobsPerUser}

\* the zero-initialised struct a mapping returns for an unused key
EmptyJob ==
    [user |-> Zero, targetAsset |-> Zero, expectedAmount |-> 0,
     receivedAmount |-> 0, swappedAmount |-> 0, netAmount |-> 0,
     gasCostUSD |-> 0, serviceFee |-> 0, status |-> Created,
     sourceChains |-> <<>>, createdAt |-> 0, completedAt |-> 0]

\* DustConsolidator after its constructor
DustConsolidator ==
    [jobs |-> [id \in JobKeys |-> EmptyJob],
     userJobs |-> [u \in Users |-> <<>>],
     supportedSourceChains |-> [c \in Chains |-> FALSE],
     trustedSenders |-> [c \in Chains |-> Zero],
     serviceFeePercent |-> 100,
     totalFeesCollected |-> 0,
     totalConsolidated |-> 0,
     backend |-> Zero,
     paused |-> FALSE,
     \* ERC-20: bal[token][holder]; allowance[token] of swapRouter over the
     \* consolidator's tokens
     bal |-> [t \in Tokens |-> [h \in Holders |-> 0]],
     allowance |-> [t \in Tokens |-> 0],
     \* event logs
     assetReceived |-> <<>>,
     swapExecuted |-> <<>>]

\* outcome of a call
Ok(S) == [err |-> "ok", st |-> S]
Revert(S, e) == [err |-> e, st |-> S]

\* ---------------------------------------------------------------- modifiers
\* faulty variant: any caller passes
onlyBackendAnyone(S, caller) == TRUE

onlyBackend(S, caller) == caller = S.backend \/ caller = Owner

\* faulty variant: any job id passes
validJobAny(S, jobId) == TRUE

validJob(S, jobId) == S.jobs[jobId].user # Zero
onlyOwner(caller) == caller = Owner

\* ------------------------------------------------------------------ ERC-20
\* SafeERC20.safeTransfer(to, amt) from the consolidator
Transfer(b, token, to, amt) ==
    [b EXCEPT ![token][This] = @ - amt, ![token][to] = @ + amt]

\* ------------------------------------------------------------- createJob
\* faulty variant: the sequence number is not taken from the user's job list
JobNonceFixed(S, user) == 0

\* userJobs[user].length
JobNonce(S, user) == Len(S.userJobs[user])

createJob(S, ts, caller, user, targetAsset, expectedAmount, sourceChains) ==
    IF ~onlyBackend(S, caller) THEN Revert(S, "UnauthorizedSender")
    ELSE IF S.paused THEN Revert(S, "EnforcedPause")
    ELSE IF targetAsset # usdc /\ targetAsset # weth THEN Revert(S, "InvalidTargetAsset")
    ELSE IF user = Zero THEN Revert(S, "ZeroAddress")
    ELSE IF expectedAmount = 0 THEN Revert(S, "InvalidAmount")
    ELSE
        LET jobId == JobIdOf(user, ts, JobNonce(S, user))
            job == [user |-> user, targetAsset |-> targetAsset,
                    expectedAmount |-> expectedAmount,
                    receivedAmount |-> 0, swappedAmount |-> 0, netAmount |-> 0,
                    gasCostUSD |-> 0, serviceFee |-> 0, status |-> Created,
                    sourceChains |-> sourceChains, createdAt |-> ts,
                    completedAt |-> 0]
        IN Ok([S EXCEPT !.jobs[jobId] = job,
                        !.userJobs[user] = Append(@, jobId)])

\* ----------------------------------------------------------- _ccipReceive
\* The CCIP router moves message.destTokenAmounts (the amount of token that
\* DustSender.sendDust attached) to the consolidator and then calls
\* ccipReceive in the same transaction.
\* faulty variant: every delivery puts the job back to Receiving
StatusAfterReceiveAlways(status) == Receiving

StatusAfterReceive(status) == IF status = Created THEN Receiving ELSE status

\* faulty variant: the delivery overwrites the running total
ReceivedAfterOverwrite(receivedAmount, amount) == amount

ReceivedAfter(receivedAmount, amount) == receivedAmount + amount

\* faulty variant: the sender of the message is not compared
TrustedSenderAny(S, sourceChain, sender) == TRUE

TrustedSender(S, sourceChain, sender) == sender = S.trustedSenders[sourceChain]

_ccipReceive(S, sourceChain, sender, jobId, token, amount) ==
    IF S.paused THEN Revert(S, "EnforcedPause")
    ELSE IF ~S.supportedSourceChains[sourceChain] THEN Revert(S, "UnsupportedSourceChain")
    ELSE IF ~TrustedSender(S, sourceChain, sender) THEN Revert(S, "UnauthorizedSender")
    ELSE IF jobId \notin JobKeys \/ S.jobs[jobId].user = Zero THEN Revert(S, "JobNotFound")
    ELSE IF ~AddOk(S.jobs[jobId].receivedAmount, amount) THEN Revert(S, "Panic")
    ELSE
        LET job == S.jobs[jobId] IN
        Ok([S EXCEPT
            !.bal[token][This] = @ + amount,
            !.jobs[jobId].status = StatusAfterReceive(job.status),
            !.jobs[jobId].receivedAmount = ReceivedAfter(job.receivedAmount, amount),
            !.assetReceived = Append(@, [jobId |-> jobId, sourceChain |-> sourceChain,
                                         token |-> token, amount |-> amount])])

\* ------------------------------------------------------------ executeSwap
\* swapRouter.call(swapData) is an external call: it fails, or it pulls
\* spent <= allowance of fromToken from the consolidator and pays out of the
\* target asset.  A pull the consolidator cannot cover fails the call.
RouterSucceeds(S, ok, fromToken, spent, allowed) ==
    ok /\ spent <= allowed /\ spent <= S.bal[fromToken][This]

SwapStatusOk(status) == status = Receiving \/ status = Swapping

\* faulty variant: the slippage floor is not enforced
SlippageOkIgnored(amountOut, minAmountOut) == TRUE

SlippageOk(amountOut, minAmountOut) == amountOut >= minAmountOut

executeSwap(S, caller, jobId, fromToken, amount, minAmountOut, ok, spent, out) ==
    IF ~onlyBackend(S, caller) THEN Revert(S, "UnauthorizedSender")
    ELSE IF jobId \notin JobKeys \/ ~validJob(S, jobId) THEN Revert(S, "JobNotFound")
    ELSE
    LET job == S.jobs[jobId]
        S1 == [S EXCEPT !.jobs[jobId].status = Swapping]
        balanceBefore == S1.bal[job.targetAsset][This]
        allowed == S1.allowance[fromToken] + amount
        S2 == [S1 EXCEPT !.allowance[fromToken] = allowed]
        \* the router's side of the call
        S3 == [S2 EXCEPT !.allowance[fromToken] = @ - spent,
                         !.bal[fromToken][This] = @ - spent,
                         !.bal[job.targetAsset][This] = @ + out]
        balanceAfter == S3.bal[job.targetAsset][This]
        amountOut == balanceAfter - balanceBefore
    IN
    IF ~SwapStatusOk(job.status) THEN Revert(S, "InvalidJobStatus")
    ELSE IF ~AddOk(S1.allowance[fromToken], amount) THEN Revert(S, "Panic")
    ELSE IF ~RouterSucceeds(S2, ok, fromToken, spent, allowed) THEN Revert(S, "SwapFailed")
    ELSE IF balanceAfter < balanceBefore THEN Revert(S, "Panic")
    ELSE IF ~SlippageOk(amountOut, minAmountOut) THEN Revert(S, "SlippageExceeded")
    ELSE IF ~AddOk(job.swappedAmount, amountOut) THEN Revert(S, "Panic")
    ELSE Ok([S3 EXCEPT
            !.jobs[jobId].swappedAmount = @ + amountOut,
            !.swapExecuted = Append(@, [jobId |-> jobId, fromToken |-> fromToken,
                                        amountIn |-> amount, amountOut |-> amountOut])])

\* --------------------------------------------------------------- _failJob
\* faulty variant: a failed settlement records the amount it looked at
_failJobRecordsAmount(S, jobId) ==
    [S EXCEPT !.jobs[jobId].status = Failed,
              !.jobs[jobId].netAmount = S.jobs[jobId].receivedAmount]

\* faulty variant: the job is left as settleJob had marked it
_failJobLeftSettling(S, jobId) == [S EXCEPT !.jobs[jobId].status = Settling]

_failJob(S, jobId) == [S EXCEPT !.jobs[jobId].status = Failed]

\* -------------------------------------------------------------- settleJob
TotalAmount(job) ==
    IF job.swappedAmount > 0 THEN job.swappedAmount ELSE job.receivedAmount

\* faulty variant: the fee is rounded up
ServiceFeeRoundedUp(totalAmount, feeBps) ==
    (totalAmount * feeBps + FEE_DENOMINATOR - 1) \div FEE_DENOMINATOR

ServiceFee(totalAmount, feeBps) == (totalAmount * feeBps) \div FEE_DENOMINATOR

\* faulty variant: settlement is accepted from any status after Created
SettleStatusOkLoose(status) == status # Created

SettleStatusOk(status) == status = Swapping \/ status = Receiving

\* faulty variant: the minimum floor is not enforced
BelowMinimumIgnored(totalAmount) == FALSE

BelowMinimum(totalAmount) == totalAmount < MIN_CONSOLIDATION_USD

settleJob(S, ts, caller, jobId, gasCostUSD) ==
    IF ~onlyBackend(S, caller) THEN Revert(S, "UnauthorizedSender")
    ELSE IF jobId \notin JobKeys \/ ~validJob(S, jobId) THEN Revert(S, "JobNotFound")
    ELSE
    LET job == S.jobs[jobId]
        S1 == [S EXCEPT !.jobs[jobId].status = Settling]
        totalAmount == TotalAmount(job)
        serviceFee == ServiceFee(totalAmount, S.serviceFeePercent)
        totalFees == gasCostUSD + serviceFee
        netAmount == totalAmount - totalFees
        S2 == [S1 EXCEPT !.jobs[jobId].netAmount = netAmount,
                         !.jobs[jobId].gasCostUSD = gasCostUSD,
                         !.jobs[jobId].serviceFee = serviceFee,
                         !.jobs[jobId].status = Complete,
                         !.jobs[jobId].completedAt = ts,
                         !.totalFeesCollected = @ + serviceFee,
                         !.totalConsolidated = @ + netAmount]
        S3 == [S2 EXCEPT !.bal = Transfer(@, job.targetAsset, job.user, netAmount)]
        S4 == IF serviceFee > 0
              THEN [S3 EXCEPT !.bal = Transfer(@, job.targetAsset, Owner, serviceFee)]
              ELSE S3
    IN
    IF ~SettleStatusOk(job.status) THEN Revert(S, "InvalidJobStatus")
    ELSE IF BelowMinimum(totalAmount) THEN Ok(_failJob(S1, jobId))
    ELSE IF ~MulOk(totalAmount, S.serviceFeePercent) THEN Revert(S, "Panic")
    ELSE IF ~AddOk(gasCostUSD, serviceFee) THEN Revert(S, "Panic")
    ELSE IF totalAmount <= totalFees THEN Ok(_failJob(S1, jobId))
    ELSE IF ~AddOk(S.totalFeesCollected, serviceFee) THEN Revert(S, "Panic")
    ELSE IF ~AddOk(S.totalConsolidated, netAmount) THEN Revert(S, "Panic")
    ELSE IF S2.bal[job.targetAsset][This] < netAmount
         THEN Revert(S, "ERC20InsufficientBalance")
    ELSE IF S3.bal[job.targetAsset][This] < serviceFee
         THEN Revert(S, "ERC20InsufficientBalance")
    ELSE Ok(S4)

\* -------------------------------------------------------------- refundJob
\* faulty variant: refund is accepted from any status that was not paid out
RefundStatusOkLoose(status) == status # Complete /\ status # Refunded

RefundStatusOk(status) == status = Failed

\* faulty variant: the refund keeps a 1% fee
RefundAmountLessFee(job) ==
    ((IF job.swappedAmount > 0 THEN job.swappedAmount ELSE job.receivedAmount) * 99) \div 100

RefundAmount(job) ==
    IF job.swappedAmount > 0 THEN job.swappedAmount ELSE job.receivedAmount

refundJob(S, caller, jobId) ==
    IF ~onlyBackend(S, caller) THEN Revert(S, "UnauthorizedSender")
    ELSE IF jobId \notin JobKeys \/ ~validJob(S, jobId) THEN Revert(S, "JobNotFound")
    ELSE
    LET job == S.jobs[jobId]
        refundAmount == RefundAmount(job)
        S1 == [S EXCEPT !.jobs[jobId].status = Refunded]
    IN
    IF ~RefundStatusOk(job.status) THEN Revert(S, "InvalidJobStatus")
    ELSE IF refundAmount > 0
         THEN IF S1.bal[job.targetAsset][This] < refundAmount
              THEN Revert(S, "ERC20InsufficientBalance")
              ELSE Ok([S1 EXCEPT !.bal = Transfer(@, job.targetAsset, job.user, refundAmount)])
    ELSE Ok(S)

\* ------------------------------------------------------------------ admin
addSupportedChain(S, caller, chainSelector, trustedSender) ==
    IF ~onlyOwner(caller) THEN Revert(S, "OwnableUnauthorizedAccount")
    ELSE IF trustedSender = Zero THEN Revert(S, "ZeroAddress")
    ELSE Ok([S EXCEPT !.supportedSourceChains[chainSelector] = TRUE,
                      !.trustedSenders[chainSelector] = trustedSender])

removeSupportedChain(S, caller, chainSelector) ==
    IF ~onlyOwner(caller) THEN Revert(S, "OwnableUnauthorizedAccount")
    ELSE Ok([S EXCEPT !.supportedSourceChains[chainSelector] = FALSE,
                      !.trustedSenders[chainSelector] = Zero])

\* faulty variant: no fee is too high
FeeTooHighNever(newFee) == FALSE

\* newFee > MAX_SERVICE_FEE
FeeTooHigh(newFee) == newFee > MAX_SERVICE_FEE

setServiceFee(S, caller, newFee) ==
    IF ~onlyOwner(caller) THEN Revert(S, "OwnableUnauthorizedAccount")
    ELSE IF FeeTooHigh(newFee) THEN Revert(S, "FeeTooHigh")
    ELSE Ok([S EXCEPT !.serviceFeePercent = newFee])

setBackend(S, caller, newBackend) ==
    IF ~onlyOwner(caller) THEN Revert(S, "OwnableUnauthorizedAccount")
    ELSE IF newBackend = Zero THEN Revert(S, "ZeroAddress")
    ELSE Ok([S EXCEPT !.backend = newBackend])

\* Pausable._pause is whenNotPaused, _unpause is whenPaused
pause(S, caller) ==
    IF ~onlyOwner(caller) THEN Revert(S, "OwnableUnauthorizedAccount")
    ELSE IF S.paused THEN Revert(S, "EnforcedPause")
    ELSE Ok([S EXCEPT !.paused = TRUE])

unpause(S, caller) ==
    IF ~onlyOwner(caller) THEN Revert(S, "OwnableUnauthorizedAccount")
    ELSE IF ~S.paused THEN Revert(S, "ExpectedPause")
    ELSE Ok([S EXCEPT !.paused = FALSE])

emergencyWithdraw(S, caller, token, amount) ==
    IF ~onlyOwner(caller) THEN Revert(S, "OwnableUnauthorizedAccount")
    ELSE IF S.bal[token][This] < amount THEN Revert(S, "ERC20InsufficientBalance")
    ELSE Ok([S EXCEPT !.bal = Transfer(@, token, Owner, amount)])


\* =========================================================== GasPaymaster
\* Units: ether amounts in finney (1e15 wei), so 0.01 ether = 10; gas in
\* millions of gas units and tx.gasprice in gwei, so estimatedGas *
\* tx.gasprice is in finney; ethPriceUSD in whole dollars (1e8 Chainlink
\* units); block.timestamp in hours, so 1 hours = 1.
InitialMaxGasPerUser == 10
InitialMaxGasPerJob == 5
InitialMinJobInterval == 1
EntryPoint == "entryPoint"

SponsorCallers == {Owner, BackendKey, Mallory}
RecoverCallers == {This, BackendKey, Mallory}
EstimatedGas == {5, 6}
ActualGas == {4}
GasPrices == {1}
EthPrices == {2000}
UpdatedEthPrices == {3000}
FundAmounts == {12}
PoolWithdrawals == {6}
GasLimitChoices == {<<10, 5>>, <<8, 5>>}
IntervalChoices == {1, 2}
PostOpCosts == {4}

\* the zero-initialised GasRecord
EmptyGasRecord ==
    [user |-> Zero, gasSponsored |-> 0, gasPriceWei |-> 0, ethPriceUSD |-> 0,
     gasCostUSD |-> 0, recovered |-> FALSE, timestamp |-> 0]

\* GasPaymaster after its constructor
GasPaymaster ==
    [dustConsolidator |-> This,
     entryPoint |-> EntryPoint,
     maxGasPerUser |-> InitialMaxGasPerUser,
     maxGasPerJob |-> InitialMaxGasPerJob,
     totalGasPool |-> 0,
     totalGasSponsored |-> 0,
     totalGasRecovered |-> 0,
     userSponsoredGas |-> [u \in Users |-> 0],
     userJobCount |-> [u \in Users |-> 0],
     authorizedSponsors |-> [a \in SponsorCallers |-> FALSE],
     gasRecords |-> [id \in AllJobIds |-> EmptyGasRecord],
     lastJobTimestamp |-> [u \in Users |-> 0],
     minJobInterval |-> InitialMinJobInterval,
     balance |-> 0,
     \* event log: the jobId of every GasRecovered event
     gasRecovered |-> <<>>]

onlyAuthorized(P, caller) == P.authorizedSponsors[caller] \/ caller = Owner

onlyConsolidatorOrAuthorized(P, caller) ==
    \/ caller = P.dustConsolidator
    \/ (caller \in DOMAIN P.authorizedSponsors /\ P.authorizedSponsors[caller])
    \/ caller = Owner

\* (gasValue * ethPriceUSD) / 1e20 in the units above:
\* (finney * 1e15 * dollars * 1e8) / 1e20 = finney * dollars * 1000
UsdPerFinneyDollar == 1000
GasCostUSD(gasValue, ethPriceUSD) == gasValue * ethPriceUSD * UsdPerFinneyDollar

\* the record sponsorGas stores under jobId
SponsoredRecord(old, user, gasValue, gasprice, ethPriceUSD, ts) ==
    [user |-> user, gasSponsored |-> gasValue, gasPriceWei |-> gasprice,
     ethPriceUSD |-> ethPriceUSD,
     gasCostUSD |-> GasCostUSD(gasValue, ethPriceUSD),
     recovered |-> FALSE, timestamp |-> ts]

\* faulty variant: no rate limit
RateLimitedNever(P, ts, user) == FALSE

RateLimited(P, ts, user) == ts - P.lastJobTimestamp[user] < P.minJobInterval

\* faulty variant: the per-user cap is not checked
OverUserCapNever(P, user, gasValue) == FALSE

OverUserCap(P, user, gasValue) == P.userSponsoredGas[user] + gasValue > P.maxGasPerUser

\* faulty variant: the per-job cap is not checked
OverJobCapNever(P, gasValue) == FALSE

OverJobCap(P, gasValue) == gasValue > P.maxGasPerJob

\* faulty variant: the balance is not checked
PoolShortNever(P, gasValue) == FALSE

PoolShort(P, gasValue) == P.balance < gasValue

\* faulty variant: the cumulative counter is left stale
SponsoredAfterStale(sponsored, gasValue) == sponsored

SponsoredAfter(sponsored, gasValue) == sponsored + gasValue

sponsorGas(P, ts, gasprice, caller, user, jobId, estimatedGas, ethPriceUSD) ==
    LET gasValue == estimatedGas * gasprice IN
    IF ~onlyAuthorized(P, caller) THEN Revert(P, "UnauthorizedSponsor")
    ELSE IF RateLimited(P, ts, user) THEN Revert(P, "RateLimitExceeded")
    ELSE IF OverUserCap(P, user, gasValue) THEN Revert(P, "UserGasLimitExceeded")
    ELSE IF OverJobCap(P, gasValue) THEN Revert(P, "JobGasLimitExceeded")
    ELSE IF PoolShort(P, gasValue) THEN Revert(P, "InsufficientGasPool")
    ELSE Ok([P EXCEPT
            !.gasRecords[jobId] = SponsoredRecord(@, user, gasValue, gasprice,
                                                  ethPriceUSD, ts),
            !.userSponsoredGas[user] = SponsoredAfter(@, gasValue),
            !.userJobCount[user] = @ + 1,
            !.totalGasSponsored = @ + gasValue,
            !.lastJobTimestamp[user] = ts])

UpdateAllowed(record) == ~record.recovered

updateGasCost(P, caller, jobId, actualGasUsed, ethPriceUSD) ==
    LET record == P.gasRecords[jobId]
        actualGasValue == actualGasUsed * record.gasPriceWei
    IN
    IF ~onlyAuthorized(P, caller) THEN Revert(P, "UnauthorizedSponsor")
    ELSE IF record.user = Zero THEN Revert(P, "InvalidJobId")
    ELSE IF ~UpdateAllowed(record) THEN Revert(P, "AlreadyRecovered")
    ELSE Ok([P EXCEPT
            !.gasRecords[jobId].gasCostUSD = GasCostUSD(actualGasValue, ethPriceUSD),
            !.gasRecords[jobId].ethPriceUSD = ethPriceUSD])

RecoverAllowed(record) == ~record.recovered

markGasRecovered(P, caller, jobId) ==
    LET record == P.gasRecords[jobId] IN
    IF ~onlyConsolidatorOrAuthorized(P, caller) THEN Revert(P, "UnauthorizedCaller")
    ELSE IF record.user = Zero THEN Revert(P, "InvalidJobId")
    ELSE IF ~RecoverAllowed(record) THEN Revert(P, "AlreadyRecovered")
    ELSE Ok([P EXCEPT
            !.gasRecords[jobId].recovered = TRUE,
            !.totalGasRecovered = @ + record.gasCostUSD,
            !.gasRecovered = Append(@, jobId)])

\* canCreateJob is a view: <<canCreate, waitTime>>
canCreateJob(P, ts, user) ==
    LET timeSinceLastJob == ts - P.lastJobTimestamp[user] IN
    IF timeSinceLastJob >= P.minJobInterval THEN <<TRUE, 0>>
    ELSE <<FALSE, P.minJobInterval - timeSinceLastJob>>

fundGasPool(P, value) ==
    IF value = 0 THEN Revert(P, "ZeroAmount")
    ELSE Ok([P EXCEPT !.totalGasPool = @ + value, !.balance = @ + value])

\* receive() external payable
receive(P, value) ==
    Ok([P EXCEPT !.totalGasPool = @ + value, !.balance = @ + value])

withdrawFromPool(P, caller, amount, to) ==
    IF ~onlyOwner(caller) THEN Revert(P, "OwnableUnauthorizedAccount")
    ELSE IF to = Zero THEN Revert(P, "ZeroAddress")
    ELSE IF amount > P.balance THEN Revert(P, "InsufficientGasPool")
    ELSE Ok([P EXCEPT !.balance = @ - amount])

setAuthorizedSponsor(P, caller, sponsor, authorized) ==
    IF ~onlyOwner(caller) THEN Revert(P, "OwnableUnauthorizedAccount")
    ELSE IF sponsor = Zero THEN Revert(P, "ZeroAddress")
    ELSE Ok([P EXCEPT !.authorizedSponsors[sponsor] = authorized])

setGasLimits(P, caller, maxPerUser, maxPerJob) ==
    IF ~onlyOwner(caller) THEN Revert(P, "OwnableUnauthorizedAccount")
    ELSE Ok([P EXCEPT !.maxGasPerUser = maxPerUser, !.maxGasPerJob = maxPerJob])

setMinJobInterval(P, caller, interval) ==
    IF ~onlyOwner(caller) THEN Revert(P, "OwnableUnauthorizedAccount")
    ELSE Ok([P EXCEPT !.minJobInterval = interval])

resetUserGas(P, caller, user) ==
    IF ~onlyOwner(caller) THEN Revert(P, "OwnableUnauthorizedAccount")
    ELSE Ok([P EXCEPT !.userSponsoredGas[user] = 0, !.lastJobTimestamp[user] = 0])

postOp(P, caller, actualGasCost) ==
    IF caller # P.entryPoint THEN Revert(P, "Must be EntryPoint")
    ELSE Ok([P EXCEPT !.totalGasSponsored = @ + actualGasCost])

\* ==================================================== DustConsolidatorMVP
\* scripts/deploy-mainnet.js: the single-chain contract.  A job is created
\* and completed in one transaction; jobs are kept in creation order, each
\* under the identifier the call computed for it.  The contract pays out in
\* the same transaction everything it took in, so token balances are left out.
MIN_CONSOLIDATION == 1000000

\* storage after construction
DustConsolidatorMVP ==
    [backend |-> Zero, paused |-> FALSE, serviceFeePercent |-> 100,
     totalFeesCollected |-> 0, totalConsolidated |-> 0, jobs |-> <<>>]

setServiceFeeMVP(S, caller, newFee) ==
    IF ~onlyOwner(caller) THEN Revert(S, "OwnableUnauthorizedAccount")
    ELSE IF FeeTooHigh(newFee) THEN Revert(S, "FeeTooHigh")
    ELSE Ok([S EXCEPT !.serviceFeePercent = newFee])

\* the job record and totals written by consolidate and by depositDirect
RecordJob(S, ts, user, asset, inputAmount, netAmount, serviceFee) ==
    LET n == Len(SelectSeq(S.jobs, LAMBDA j : j.user = user))
        job == [id |-> JobIdOf(user, ts, n), user |-> user, targetAsset |-> asset,
                inputAmount |-> inputAmount, outputAmount |-> netAmount,
                serviceFee |-> serviceFee, status |-> Complete,
                createdAt |-> ts, completedAt |-> ts]
    IN  [S EXCEPT !.jobs = Append(@, job),
                  !.totalFeesCollected = @ + serviceFee,
                  !.totalConsolidated = @ + netAmount]

\* swapOutput is what the router call adds to the contract's balance of the
\* target asset, -1 when the call fails
consolidate(S, ts, caller, user, targetAsset, inputToken, inputAmount, minOutputAmount, swapOutput) ==
    IF ~onlyBackend(S, caller) THEN Revert(S, "UnauthorizedSender")
    ELSE IF S.paused THEN Revert(S, "EnforcedPause")
    ELSE IF targetAsset # usdc /\ targetAsset # weth THEN Revert(S, "InvalidTargetAsset")
    ELSE IF user = Zero THEN Revert(S, "ZeroAddress")
    ELSE IF inputAmount = 0 THEN Revert(S, "InvalidAmount")
    ELSE IF inputToken # targetAsset /\ swapOutput < 0 THEN Revert(S, "Swap failed")
    ELSE IF inputToken # targetAsset /\ swapOutput < minOutputAmount
         THEN Revert(S, "Slippage exceeded")
    ELSE
        LET outputAmount == IF inputToken = targetAsset THEN inputAmount ELSE swapOutput
            serviceFee == ServiceFee(outputAmount, S.serviceFeePercent)
            netAmount == outputAmount - serviceFee
        IN  IF netAmount < MIN_CONSOLIDATION THEN Revert(S, "Amount too small")
            ELSE Ok(RecordJob(S, ts, user, targetAsset, inputAmount, netAmount, serviceFee))

depositDirect(S, ts, caller, user, asset, amount) ==
    IF ~onlyBackend(S, caller) THEN Revert(S, "UnauthorizedSender")
    ELSE IF S.paused THEN Revert(S, "EnforcedPause")
    ELSE IF asset # usdc /\ asset # weth THEN Revert(S, "InvalidTargetAsset")
    ELSE IF amount = 0 THEN Revert(S, "InvalidAmount")
    ELSE
        LET serviceFee == ServiceFee(amount, S.serviceFeePercent)
            netAmount == amount - serviceFee
        IN  Ok(RecordJob(S, ts, user, asset, amount, netAmount, serviceFee))

\* =============================================== backend: aggregators.js
\* A call of getBestQuote or getSwapCalldata is a process with one step per
\* await.  The HTTP responses of the price sources are inputs.  A fee is the
\* percentage written in AGGREGATOR_FEES, kept as a fraction <<num, den>>.
Sources == <<"0x", "1inch", "paraswap", "lifi">>
SourceNames == {Sources[i] : i \in 1..Len(Sources)}
AGGREGATOR_FEES ==
    [s \in SourceNames |-> IF s = "0x" THEN <<15, 100>> ELSE <<0, 100>>]
TOTAL_SERVICE_FEE == <<120, 100>>

\* input domains
\* a request fails, or answers with a buy amount in a payload that is
\* complete or lacks its optional part
HttpResponses ==
    {[kind |-> "failure"]}
    \cup {[kind |-> "ok", amount |-> a, complete |-> c] :
            a \in {999, 1000}, c \in BOOLEAN}

\* values
Undefined == [from |-> "undefined", response |-> "undefined"]
Calldata(source, response) == [from |-> source, response |-> response]
Null == [kind |-> "null"]
Pending == [kind |-> "pending"]

Quote(aggregator, buyAmount, data, priceRoute, transactionRequest) ==
    [kind |-> "quote", aggregator |-> aggregator, buyAmount |-> buyAmount,
     fee |-> AGGREGATOR_FEES[aggregator], data |-> data, to |-> data,
     priceRoute |-> priceRoute, transactionRequest |-> transactionRequest]

\* get0xQuote: null on any failure; data and to are whatever the payload holds
get0xQuote(response, which) ==
    IF response.kind = "failure" THEN Null
    ELSE Quote("0x", response.amount,
               IF response.complete THEN Calldata("0x", which) ELSE Undefined,
               FALSE, FALSE)

\* get1inchQuote: the quote endpoint carries no calldata
get1inchQuote(response) ==
    IF response.kind = "failure" THEN Null
    ELSE Quote("1inch", response.amount, Undefined, FALSE, FALSE)

\* getParaswapQuote: null when the payload has no priceRoute
getParaswapQuote(response) ==
    IF response.kind = "failure" \/ ~response.complete THEN Null
    ELSE Quote("paraswap", response.amount, Undefined, TRUE, FALSE)

\* getLifiQuote: transactionRequest is whatever the payload holds
getLifiQuote(response) ==
    IF response.kind = "failure" THEN Null
    ELSE Quote("lifi", response.amount, Undefined, FALSE, response.complete)

\* Math.floor(q.fee * 100)
FeeBps(fee) == (fee[1] * 100) \div fee[2]

\* faulty variant: the fee term is rounded up
NetOutputFeeRoundedUp(buyAmount, fee) ==
    buyAmount - ((buyAmount * FeeBps(fee) + 9999) \div 10000)

\* q.buyAmount - (q.buyAmount * BigInt(Math.floor(q.fee * 100))) / 10000n
NetOutput(buyAmount, fee) == buyAmount - ((buyAmount * FeeBps(fee)) \div 10000)

\* faulty variant: one failed source empties the list
ReceivedAllOrNothing(quotes) ==
    IF \E s \in SourceNames : quotes[s] = Null THEN <<>>
    ELSE [i \in 1..Len(Sources) |-> quotes[Sources[i]]]

\* [quote0x, quote1inch, quoteParaswap, quoteLifi].filter(q => q !== null)
Received(quotes) ==
    SelectSeq([i \in 1..Len(Sources) |-> quotes[Sources[i]]],
              LAMBDA q : q # Null)

WithNet(q) ==
    [kind |-> "quote", aggregator |-> q.aggregator, buyAmount |-> q.buyAmount,
     fee |-> q.fee, data |-> q.data, to |-> q.to, priceRoute |-> q.priceRoute,
     transactionRequest |-> q.transactionRequest,
     netOutput |-> NetOutput(q.buyAmount, q.fee)]

\* faulty variant: an element is placed before the elements it ties with
InsertByNetBeforeTies(q, sorted) ==
    LET before == SelectSeq(sorted, LAMBDA x : x.netOutput > q.netOutput)
        after == SelectSeq(sorted, LAMBDA x : x.netOutput <= q.netOutput)
    IN  before \o <<q>> \o after

\* Array.prototype.sort is stable: an element goes after every element that
\* the comparator ranks before it or equal to it
InsertByNet(q, sorted) ==
    LET before == SelectSeq(sorted, LAMBDA x : x.netOutput >= q.netOutput)
        after == SelectSeq(sorted, LAMBDA x : x.netOutput < q.netOutput)
    IN  before \o <<q>> \o after

\* faulty variant: the list is left in source order
SortByNetSkipped(list) == list

\* quotesWithNet.sort((a, b) => ...), highest netOutput first
RECURSIVE SortByNet(_)
SortByNet(list) ==
    IF list = <<>> THEN <<>>
    ELSE InsertByNet(list[Len(list)], SortByNet(SubSeq(list, 1, Len(list) - 1)))

\* what getBestQuote returns once the four source calls have settled
getBestQuote(quotes) ==
    LET received == Received(quotes) IN
    IF Len(received) = 0 THEN Null
    ELSE
        LET quotesWithNet == SortByNet([i \in 1..Len(received) |-> WithNet(received[i])])
            best == quotesWithNet[1]
        IN  [kind |-> "quote", aggregator |-> best.aggregator,
             buyAmount |-> best.buyAmount, fee |-> best.fee, data |-> best.data,
             to |-> best.to, priceRoute |-> best.priceRoute,
             transactionRequest |-> best.transactionRequest,
             netOutput |-> best.netOutput,
             allQuotes |-> [i \in 1..Len(quotesWithNet) |->
                [aggregator |-> quotesWithNet[i].aggregator,
                 buyAmount |-> quotesWithNet[i].buyAmount,
                 netOutput |-> quotesWithNet[i].netOutput,
                 fee |-> quotesWithNet[i].fee]],
             ourServiceFee |-> <<TOTAL_SERVICE_FEE[1] - best.fee[1], 100>>]

\* no call in progress
AggregatorIdle ==
    [pc |-> "idle", fn |-> "none", quotes |-> [s \in SourceNames |-> Pending],
     best |-> Pending,
     attempted |-> <<>>, result |-> Pending]

\* ============================================================== DustSender
\* abi.encode of an address: the 20 bytes right-aligned in a 32-byte word
AddressWord(a) == [pad |-> 0, addr |-> a]

\* faulty variant: the amount is packed into 16 bits
AbiEncodeNarrow(jobId, token, amount) == <<jobId, AddressWord(token), amount % 65536>>

\* abi.encode(jobId, token, amount): three 32-byte words in argument order
AbiEncode(jobId, token, amount) == <<jobId, AddressWord(token), amount>>

\* abi.decode(data, (bytes32, address, uint256)) reverts on short data and on
\* an address word with dirty upper bytes
AbiDecodable(data) == Len(data) >= 3 /\ data[2].pad = 0

AbiDecode(data) == [jobId |-> data[1], token |-> data[2].addr, amount |-> data[3]]

\* the zero-initialised struct sendRecords returns for an unused key
EmptyRecord ==
    [user |-> Zero, token |-> Zero, amount |-> 0, jobId |-> <<>>,
     ccipMessageId |-> 0, timestamp |-> 0, success |-> FALSE]

\* DustSender after its constructor on source chain 1, with the ERC-20 and
\* LINK balances it holds and the messages its router has accepted
DustSender ==
    [dustConsolidator |-> This,
     backend |-> Zero,
     paused |-> FALSE,
     supportedTokens |-> [t \in Tokens |-> FALSE],
     sendRecords |-> [m \in 1..MaxSends |-> EmptyRecord],
     \* ReentrancyGuard status: TRUE while a nonReentrant function runs
     entered |-> FALSE,
     bal |-> [t \in Tokens |-> 0],
     link |-> 0,
     \* router: message ids handed out, messages not yet delivered
     sent |-> 0,
     inflight |-> {}]

DustSender_onlyBackend(S, caller) == caller = S.backend \/ caller = Owner

\* ccipRouter.getFee gives fees; ccipRouter.ccipSend pulls the tokens and the
\* LINK fee from the sender, and returns the id of the message
sendDust(S, ts, caller, jobId, token, amount, user, fees) ==
    IF ~DustSender_onlyBackend(S, caller) THEN Revert(S, "UnauthorizedCaller")
    ELSE IF S.paused THEN Revert(S, "Paused")
    ELSE IF S.entered THEN Revert(S, "ReentrancyGuardReentrantCall")
    ELSE IF ~S.supportedTokens[token] THEN Revert(S, "UnsupportedToken")
    ELSE IF amount = 0 THEN Revert(S, "ZeroAmount")
    ELSE IF S.link < fees THEN Revert(S, "InsufficientLinkBalance")
    ELSE IF S.bal[token] < amount THEN Revert(S, "ERC20InsufficientBalance")
    ELSE
        LET messageId == S.sent + 1
            message == [messageId |-> messageId,
                        receiver |-> AddressWord(S.dustConsolidator),
                        data |-> AbiEncode(jobId, token, amount),
                        tokenAmounts |-> <<[token |-> token, amount |-> amount]>>,
                        feeToken |-> "LINK"]
        IN  Ok([S EXCEPT
                !.bal[token] = @ - amount,
                !.link = @ - fees,
                !.sent = messageId,
                !.inflight = @ \cup {message},
                !.sendRecords[messageId] =
                    [user |-> user, token |-> token, amount |-> amount,
                     jobId |-> jobId, ccipMessageId |-> messageId,
                     timestamp |-> ts, success |-> TRUE]])

\* weth.call{value: msg.value}("") succeeds or not (wrapped); on success the
\* sender holds value more WETH.  this.sendDust is an external call: its
\* msg.sender is the DustSender itself, made while the guard is entered.
sendNativeETH(S, ts, caller, value, jobId, user, wethToken, wrapped, fees) ==
    IF ~DustSender_onlyBackend(S, caller) THEN Revert(S, "UnauthorizedCaller")
    ELSE IF S.paused THEN Revert(S, "Paused")
    ELSE IF S.entered THEN Revert(S, "ReentrancyGuardReentrantCall")
    ELSE IF value = 0 THEN Revert(S, "ZeroAmount")
    ELSE IF ~wrapped THEN Revert(S, "TransferFailed")
    ELSE
        LET inner == sendDust([S EXCEPT !.entered = TRUE, !.bal[wethToken] = @ + value],
                              ts, SenderOf(1), jobId, wethToken, value, user, fees)
        IN  IF inner.err # "ok" THEN Revert(S, inner.err)
            ELSE Ok([inner.st EXCEPT !.entered = FALSE])

setSupportedToken(S, caller, token, supported) ==
    IF ~onlyOwner(caller) THEN Revert(S, "OwnableUnauthorizedAccount")
    ELSE IF token = Zero THEN Revert(S, "ZeroAddress")
    ELSE Ok([S EXCEPT !.supportedTokens[token] = supported])

DustSender_setBackend(S, caller, _backend) ==
    IF ~onlyOwner(caller) THEN Revert(S, "OwnableUnauthorizedAccount")
    ELSE IF _backend = Zero THEN Revert(S, "ZeroAddress")
    ELSE Ok([S EXCEPT !.backend = _backend])

setPaused(S, caller, _paused) ==
    IF ~onlyOwner(caller) THEN Revert(S, "OwnableUnauthorizedAccount")
    ELSE Ok([S EXCEPT !.paused = _paused])

\* the message the destination router hands to the consolidator
Any2EVMMessage(m) ==
    [messageId |-> m.messageId, sourceChainSelector |-> 1,
     sender |-> AddressWord(SenderOf(1)), data |-> m.data,
     destTokenAmounts |-> m.tokenAmounts]

\* _ccipReceive on the message as delivered: sender and data are decoded
ccipReceive(S, message) ==
    IF message.sender.pad # 0 \/ ~AbiDecodable(message.data) THEN Revert(S, "abi.decode")
    ELSE
        LET d == AbiDecode(message.data) IN
        _ccipReceive(S, message.sourceChainSelector, message.sender.addr,
                     d.jobId, d.token, d.amount)

\* ================================================== backend: scanner.js
\* Dollar amounts are held in cents, as the scan summary's toFixed(2) leaves
\* them, and computed exactly in thousandths of a cent.
\* Number(x.toFixed(2)): x in thousandths of a cent, to the nearest cent
toFixed2(x) == (x + 500) \div 1000

estimateFees(scanResult) ==
    LET totalRecoverable == scanResult.totalRecoverable * 1000
        totalGasEstimate == scanResult.totalGasEstimate * 1000
        chainCount == scanResult.chainCount
        \* totalRecoverable * 0.001 * chainCount + (chainCount * 0.50)
        bridgeFees == scanResult.totalRecoverable * chainCount + chainCount * 50000
        \* totalRecoverable * 0.012
        serviceFee == scanResult.totalRecoverable * 12
        \* totalRecoverable * 0.003
        swapFees == scanResult.totalRecoverable * 3
        totalFees == totalGasEstimate + bridgeFees + serviceFee + swapFees
        netAmount == IF totalRecoverable - totalFees > 0
                     THEN totalRecoverable - totalFees ELSE 0
    IN  [grossAmount |-> scanResult.totalRecoverable,
         fees |-> [gas |-> toFixed2(totalGasEstimate),
                   bridge |-> toFixed2(bridgeFees),
                   service |-> toFixed2(serviceFee),
                   swap |-> toFixed2(swapFees),
                   total |-> toFixed2(totalFees)],
         netAmount |-> toFixed2(netAmount),
         worthIt |-> netAmount >= minProfitableUSD * 1000,
         \* percent of the gross amount, in tenths of a percent
         profitMargin |-> IF totalRecoverable > 0
                          THEN (2000 * netAmount + totalRecoverable)
                                    \div (2 * totalRecoverable)
                          ELSE 0]

\* no scan made yet
EstimatorIdle == [pc |-> "idle", scanResult |-> Null, estimate |-> Null]

\* ------------------------------------------------------------------- Init
Init ==
    /\ dc = DustConsolidator
    /\ pm = GasPaymaster
    /\ now = 1
    /\ ag = AggregatorIdle
    /\ mvp = DustConsolidatorMVP
    /\ ds = DustSender
    /\ est = EstimatorIdle

\* ---------------------------------------------------------------- actions
\* a transaction on the consolidator that does not revert
Mined(r) ==
    /\ r.err = "ok"
    /\ dc' = r.st
    /\ UNCHANGED <<pm, now, ag, mvp, ds, est>>

NumJobs == Cardinality({id \in JobKeys : dc.jobs[id].user # Zero})

CreateJob ==
    /\ NumJobs < MaxJobs
    /\ \E caller \in Callers, user \in JobUsers, targetAsset \in TargetAssets,
          expectedAmount \in ExpectedAmounts, sourceChains \in SourceChainLists :
            Mined(createJob(dc, now, caller, user, targetAsset, expectedAmount, sourceChains))

CcipReceive ==
    /\ Len(dc.assetReceived) < MaxDeliveries
    /\ \E d \in Deliveries, sender \in MessageSenders, jobId \in AllJobIds :
            Mined(_ccipReceive(dc, d[1], sender, jobId, d[2], d[3]))

ExecuteSwap ==
    /\ Len(dc.swapExecuted) < MaxSwaps
    /\ \E caller \in Callers, jobId \in AllJobIds, fromToken \in SwapFromTokens,
          amount \in SwapAmounts, minAmountOut \in MinAmountsOut,
          ok \in BOOLEAN, out \in SwapOutputs :
            \E spent \in {0, amount} :
                Mined(executeSwap(dc, caller, jobId, fromToken, amount, minAmountOut,
                                  ok, spent, out))

SettleJob ==
    \E caller \in Callers, jobId \in AllJobIds, gasCostUSD \in GasCosts :
        Mined(settleJob(dc, now, caller, jobId, gasCostUSD))

RefundJob ==
    \E caller \in Callers, jobId \in AllJobIds : Mined(refundJob(dc, caller, jobId))

AddSupportedChain ==
    \E caller \in AdminCallers, chainSelector \in Chains :
        \E trustedSender \in {SenderOf(chainSelector), Zero} :
            Mined(addSupportedChain(dc, caller, chainSelector, trustedSender))

RemoveSupportedChain ==
    \E caller \in AdminCallers, chainSelector \in Chains :
        Mined(removeSupportedChain(dc, caller, chainSelector))

SetServiceFee ==
    \E caller \in AdminCallers, newFee \in FeeChoices :
        Mined(setServiceFee(dc, caller, newFee))

SetBackend ==
    \E caller \in AdminCallers, newBackend \in {BackendKey, Zero} :
        Mined(setBackend(dc, caller, newBackend))

Pause == \E caller \in AdminCallers : Mined(pause(dc, caller))

Unpause == \E caller \in AdminCallers : Mined(unpause(dc, caller))

EmergencyWithdraw ==
    \E caller \in AdminCallers, token \in WithdrawTokens, amount \in WithdrawAmounts :
        Mined(emergencyWithdraw(dc, caller, token, amount))

\* a later block
Tick ==
    /\ now < MaxTime
    /\ now' = now + 1
    /\ UNCHANGED <<dc, pm, ag, mvp, ds, est>>

\* ------------------------------------------------------ paymaster actions
\* a transaction on the paymaster that does not revert
MinedPm(r) ==
    /\ r.err = "ok"
    /\ pm' = r.st
    /\ UNCHANGED <<dc, now, ag, mvp, ds, est>>

RECURSIVE SumOver(_, _)
SumOver(f, D) ==
    IF D = {} THEN 0
    ELSE LET x == CHOOSE y \in D : TRUE IN f[x] + SumOver(f, D \ {x})

NumSponsorships == SumOver(pm.userJobCount, Users)

SponsorGas ==
    /\ NumSponsorships < MaxSponsorships
    /\ \E caller \in SponsorCallers, user \in Users, jobId \in AllJobIds,
          estimatedGas \in EstimatedGas, gasprice \in GasPrices,
          ethPriceUSD \in EthPrices :
            MinedPm(sponsorGas(pm, now, gasprice, caller, user, jobId,
                               estimatedGas, ethPriceUSD))

UpdateGasCost ==
    \E caller \in SponsorCallers, jobId \in AllJobIds,
       actualGasUsed \in ActualGas, ethPriceUSD \in UpdatedEthPrices :
        MinedPm(updateGasCost(pm, caller, jobId, actualGasUsed, ethPriceUSD))

MarkGasRecovered ==
    \E caller \in RecoverCallers, jobId \in AllJobIds :
        MinedPm(markGasRecovered(pm, caller, jobId))

FundGasPool ==
    \E value \in FundAmounts :
        /\ pm.totalGasPool + value <= MaxPool
        /\ MinedPm(fundGasPool(pm, value))

ReceiveEther ==
    \E value \in FundAmounts :
        /\ pm.totalGasPool + value <= MaxPool
        /\ MinedPm(receive(pm, value))

WithdrawFromPool ==
    \E caller \in AdminCallers, amount \in PoolWithdrawals :
        MinedPm(withdrawFromPool(pm, caller, amount, Owner))

SetAuthorizedSponsor ==
    \E caller \in AdminCallers, authorized \in BOOLEAN :
        MinedPm(setAuthorizedSponsor(pm, caller, BackendKey, authorized))

SetGasLimits ==
    \E caller \in AdminCallers, limits \in GasLimitChoices :
        MinedPm(setGasLimits(pm, caller, limits[1], limits[2]))

SetMinJobInterval ==
    \E caller \in AdminCallers, interval \in IntervalChoices :
        MinedPm(setMinJobInterval(pm, caller, interval))

ResetUserGas ==
    \E caller \in AdminCallers, user \in Users :
        MinedPm(resetUserGas(pm, caller, user))

PostOp ==
    \E caller \in {EntryPoint, Mallory}, actualGasCost \in PostOpCosts :
        /\ pm.totalGasSponsored + actualGasCost <= MaxTotalSponsored
        /\ MinedPm(postOp(pm, caller, actualGasCost))

NextPaymaster ==
    \/ SponsorGas
    \/ UpdateGasCost
    \/ MarkGasRecovered
    \/ FundGasPool
    \/ WithdrawFromPool
    \/ SetAuthorizedSponsor
    \/ SetGasLimits
    \/ SetMinJobInterval
    \/ ResetUserGas
    \/ PostOp
    \/ ReceiveEther
    \/ Tick

SpecPaymaster == Init /\ [][NextPaymaster]_vars

Next ==
    \/ CreateJob
    \/ CcipReceive
    \/ ExecuteSwap
    \/ SettleJob
    \/ RefundJob
    \/ AddSupportedChain
    \/ RemoveSupportedChain
    \/ SetServiceFee
    \/ SetBackend
    \/ Pause
    \/ Unpause
    \/ EmergencyWithdraw

Spec == Init /\ [][Next]_vars

\* ------------------------------------------- consolidator and paymaster
\* The two contracts deployed together (scripts/deploy-mvp.js): the job
\* lifecycle of the consolidator interleaved with the sponsorship ledger.
\* Neither contract calls the other, so a step is a call on one of them.
NextCombined ==
    \/ CreateJob
    \/ CcipReceive
    \/ ExecuteSwap
    \/ SettleJob
    \/ RefundJob
    \/ AddSupportedChain
    \/ FundGasPool
    \/ SponsorGas
    \/ UpdateGasCost
    \/ MarkGasRecovered
    \/ SetBackend
    \/ SetAuthorizedSponsor

SpecCombined == Init /\ [][NextCombined]_vars

\* --------------------------------------------------- several jobs per user
\* createJob again, for a user who may already have a job, in the same block
\* or in a later one
CreateFurtherJob ==
    /\ NumJobs < MaxJobsPerUser
    /\ \E caller \in Callers, user \in JobUsers, targetAsset \in TargetAssets,
          expectedAmount \in ExpectedAmounts, sourceChains \in SourceChainLists :
            Mined(createJob(dc, now, caller, user, targetAsset, expectedAmount, sourceChains))

NextJobIds ==
    \/ CreateFurtherJob
    \/ Tick
    \/ CcipReceive
    \/ ExecuteSwap
    \/ SettleJob
    \/ RefundJob
    \/ AddSupportedChain
    \/ SetBackend
    \/ EmergencyWithdraw

SpecJobIds == Init /\ [][NextJobIds]_vars

\* ------------------------------------------------------ a job's progress
\* The job lifecycle with an operator who keeps calling settleJob and
\* refundJob: a call that can succeed is eventually made.
NextLifecycle ==
    \/ CreateJob
    \/ AddSupportedChain
    \/ CcipReceive
    \/ ExecuteSwap
    \/ SettleJob
    \/ RefundJob
    \/ EmergencyWithdraw

SpecLifecycle ==
    Init /\ [][NextLifecycle]_vars /\ WF_vars(SettleJob) /\ WF_vars(RefundJob)

\* ----------------------------------------------------------- MVP actions
\* a transaction on DustConsolidatorMVP that does not revert
MinedMvp(r) ==
    /\ r.err = "ok"
    /\ mvp' = r.st
    /\ UNCHANGED <<dc, pm, now, ag, ds, est>>

SetServiceFeeMVP ==
    \E caller \in AdminCallers, newFee \in {MAX_SERVICE_FEE, MAX_SERVICE_FEE + 1} :
        MinedMvp(setServiceFeeMVP(mvp, caller, newFee))

Consolidate ==
    /\ Len(mvp.jobs) < MaxMvpJobs
    /\ \E caller \in Callers, user \in JobUsers, targetAsset \in TargetAssets,
          inputToken \in {usdc, dustToken}, inputAmount \in {0, 1000000, 1010101},
          swapOutput \in {-1, 999999, 1010101} :
            MinedMvp(consolidate(mvp, now, caller, user, targetAsset, inputToken,
                                 inputAmount, 1000000, swapOutput))

DepositDirect ==
    /\ Len(mvp.jobs) < MaxMvpJobs
    /\ \E caller \in Callers, user \in JobUsers, asset \in TargetAssets,
          amount \in {0, 1000000, 1010101} :
            MinedMvp(depositDirect(mvp, now, caller, user, asset, amount))

\* ------------------------------------------------------- the service fee
\* Both consolidators with the calls that set the fee rate and the calls
\* that charge it.
NextFees ==
    \/ AddSupportedChain
    \/ CreateJob
    \/ CcipReceive
    \/ SettleJob
    \/ SetServiceFee
    \/ SetServiceFeeMVP
    \/ Consolidate
    \/ DepositDirect

SpecFees == Init /\ [][NextFees]_vars

\* ---------------------------------------------------- aggregator actions
StepAg(new) ==
    /\ ag' = new
    /\ UNCHANGED <<dc, pm, now, mvp, ds, est>>

CallGetBestQuote ==
    /\ ag.pc = "idle"
    /\ StepAg([ag EXCEPT !.pc = "quoting", !.fn = "getBestQuote"])

\* getSwapCalldata: with preferredAggregator '0x' the 0x quote is asked first
CallGetSwapCalldata ==
    /\ ag.pc = "idle"
    /\ \E preferred \in {"none", "0x", "1inch"} :
        StepAg([ag EXCEPT !.fn = "getSwapCalldata",
                          !.pc = IF preferred = "0x" THEN "preferred0x"
                                 ELSE "quoting"])

\* await get0xQuote(...) of the preferred branch
Preferred0xSettles ==
    /\ ag.pc = "preferred0x"
    /\ \E response \in HttpResponses :
        LET quote == get0xQuote(response, "preferred") IN
        IF quote # Null /\ quote.data # Undefined
        THEN StepAg([ag EXCEPT !.pc = "done", !.result = quote])
        ELSE StepAg([ag EXCEPT !.pc = "quoting"])

\* one of the four source calls inside Promise.all settles
SourceSettles ==
    /\ ag.pc = "quoting"
    /\ \E s \in SourceNames, response \in HttpResponses :
        /\ ag.quotes[s] = Pending
        /\ StepAg([ag EXCEPT !.quotes[s] =
                IF s = "0x" THEN get0xQuote(response, "quote")
                ELSE IF s = "1inch" THEN get1inchQuote(response)
                ELSE IF s = "paraswap" THEN getParaswapQuote(response)
                ELSE getLifiQuote(response)])

\* what getSwapCalldata does with the best quote up to its next await
AfterBest(A, best) ==
    IF best = Null THEN [A EXCEPT !.pc = "done", !.best = best, !.result = Null]
    ELSE IF best.aggregator = "0x" /\ best.data # Undefined
         THEN [A EXCEPT !.pc = "done", !.best = best, !.result = best,
                        !.attempted = <<"0x">>]
    ELSE IF best.aggregator = "1inch"
         THEN [A EXCEPT !.pc = "swap1inch", !.best = best, !.attempted = <<"1inch">>]
    ELSE IF best.aggregator = "paraswap" /\ best.priceRoute
         THEN [A EXCEPT !.pc = "txParaswap", !.best = best,
                        !.attempted = <<"paraswap">>]
    ELSE IF best.aggregator = "lifi" /\ best.transactionRequest
         THEN [A EXCEPT !.pc = "done", !.best = best, !.attempted = <<"lifi">>,
                        !.result = [best EXCEPT !.data = Calldata("lifi", "quote"),
                                                !.to = Calldata("lifi", "quote")]]
    ELSE [A EXCEPT !.pc = "fallback0x", !.best = best,
                   !.attempted = <<best.aggregator>>]

\* Promise.all resolves once every source call has settled
AllSettled ==
    /\ ag.pc = "quoting"
    /\ \A s \in SourceNames : ag.quotes[s] # Pending
    /\ LET best == getBestQuote(ag.quotes) IN
        IF ag.fn = "getBestQuote"
        THEN StepAg([ag EXCEPT !.pc = "done", !.best = best, !.result = best])
        ELSE StepAg(AfterBest(ag, best))

\* the second round-trip: 1inch /swap or Paraswap /transactions
SecondCallSettles ==
    /\ ag.pc \in {"swap1inch", "txParaswap"}
    /\ \E response \in {"failure", "payload", "noData"} :
        LET data == IF response = "payload"
                    THEN Calldata(ag.best.aggregator, "second")
                    ELSE Undefined
        IN  IF response = "failure"
            THEN StepAg([ag EXCEPT !.pc = "fallback0x"])
            ELSE StepAg([ag EXCEPT !.pc = "done",
                    !.result = [ag.best EXCEPT !.data = data, !.to = data]])

\* return get0xQuote(...) at the end of getSwapCalldata
Fallback0xSettles ==
    /\ ag.pc = "fallback0x"
    /\ \E response \in HttpResponses :
        StepAg([ag EXCEPT !.pc = "done", !.result = get0xQuote(response, "fallback")])

NextAggregator ==
    \/ CallGetBestQuote
    \/ CallGetSwapCalldata
    \/ Preferred0xSettles
    \/ SourceSettles
    \/ AllSettled
    \/ SecondCallSettles
    \/ Fallback0xSettles

SpecAggregator == Init /\ [][NextAggregator]_vars

\* The event loop runs a continuation whose promise has settled; nothing
\* makes a price source answer.
SpecAggregatorFair == SpecAggregator /\ WF_vars(AllSettled)

\* ------------------------------------------------------ DustSender actions
\* a transaction on the DustSender that does not revert
MinedDs(r) ==
    /\ r.err = "ok"
    /\ ds' = r.st
    /\ UNCHANGED <<dc, pm, now, ag, mvp, est>>

SetSupportedToken ==
    \E caller \in AdminCallers, token \in {usdc, weth, Zero}, supported \in BOOLEAN :
        MinedDs(setSupportedToken(ds, caller, token, supported))

DustSender_SetBackend ==
    \E caller \in AdminCallers, _backend \in {BackendKey, Zero} :
        MinedDs(DustSender_setBackend(ds, caller, _backend))

SetPaused ==
    \E caller \in AdminCallers, _paused \in BOOLEAN : MinedDs(setPaused(ds, caller, _paused))

\* the backend moves a user's dust to the DustSender (an ERC-20 transfer)
TransferToSender ==
    \E token \in {usdc, weth}, amount \in {400000} :
        /\ ds.bal[token] = 0
        /\ MinedDs(Ok([ds EXCEPT !.bal[token] = @ + amount]))

\* LINK for the router's fees is transferred to the DustSender
FundLink ==
    /\ ds.link < MaxSends
    /\ MinedDs(Ok([ds EXCEPT !.link = @ + 1]))

SendDust ==
    /\ ds.sent < MaxSends
    /\ \E caller \in Callers, jobId \in AllJobIds, token \in {usdc, weth},
          amount \in {0, 400000}, user \in Users, fees \in {1} :
            MinedDs(sendDust(ds, now, caller, jobId, token, amount, user, fees))

\* the destination router executes a message on the consolidator; a message
\* whose execution reverts stays undelivered
CcipDeliver ==
    /\ Len(dc.assetReceived) < MaxDeliveries
    /\ \E m \in ds.inflight :
        LET r == ccipReceive(dc, Any2EVMMessage(m)) IN
        /\ m.receiver = AddressWord(This)
        /\ r.err = "ok"
        /\ dc' = r.st
        /\ ds' = [ds EXCEPT !.inflight = @ \ {m}]
        /\ UNCHANGED <<pm, now, ag, mvp, est>>

NextBridge ==
    \/ SetSupportedToken
    \/ DustSender_SetBackend
    \/ SetPaused
    \/ TransferToSender
    \/ FundLink
    \/ SendDust
    \/ CcipDeliver
    \/ CreateJob
    \/ AddSupportedChain

SpecBridge == Init /\ [][NextBridge]_vars

\* ------------------------------------------------------- estimate actions
\* scanAllChains returns: a chain is counted only with dust on it, and a
\* token is counted only when worth more than the gas to move it
ScanAllChains ==
    /\ est.pc = "idle"
    /\ \E chainCount \in 0..MaxChainCount, totalRecoverable \in 0..MaxRecoverable,
          totalGasEstimate \in 0..MaxGasEstimate :
        /\ chainCount = 0 => totalRecoverable = 0 /\ totalGasEstimate = 0
        /\ chainCount > 0 => totalRecoverable >= 10 * chainCount
                             /\ totalGasEstimate < totalRecoverable
        /\ est' = [est EXCEPT !.pc = "scanned",
                      !.scanResult = [totalRecoverable |-> totalRecoverable,
                                      totalGasEstimate |-> totalGasEstimate,
                                      chainCount |-> chainCount]]
    /\ UNCHANGED <<dc, pm, now, ag, mvp, ds>>

EstimateFees ==
    /\ est.pc = "scanned"
    /\ est' = [est EXCEPT !.pc = "estimated", !.estimate = estimateFees(est.scanResult)]
    /\ UNCHANGED <<dc, pm, now, ag, mvp, ds>>

NextEstimate == ScanAllChains \/ EstimateFees

SpecEstimate == Init /\ [][NextEstimate]_vars

\* ============================================================= properties
Authorized(caller) == onlyBackend(dc, caller)
ValidJobs == {id \in AllJobIds : validJob(dc, id)}
Terminal == {Complete, Failed, Refunded}

\* ---------------------------------------------------------------------- C1
AllowedTransitions ==
    {<<Created, Receiving>>, <<Receiving, Swapping>>, <<Swapping, Swapping>>,
     <<Receiving, Complete>>, <<Receiving, Failed>>,
     <<Swapping, Complete>>, <<Swapping, Failed>>, <<Failed, Refunded>>}

\* C1: in every step, every job's status stays as it is or moves along
\* Created->Receiving, Receiving->Swapping, Swapping->Swapping,
\* Receiving/Swapping->Complete or Failed (Settling is passed inside the
\* settlement), Failed->Refunded; so it never moves back and Complete and
\* Refunded are never left.
C1_StatusOnlyAdvances ==
    [][\A id \in AllJobIds :
        \/ dc'.jobs[id].status = dc.jobs[id].status
        \/ <<dc.jobs[id].status, dc'.jobs[id].status>> \in AllowedTransitions]_vars

\* a job that was delivered to, swapped twice (Swapping->Swapping) and settled
C1_Witness ==
    \E id \in ValidJobs :
        /\ dc.jobs[id].status = Complete
        /\ Len(dc.swapExecuted) = 2
        /\ \A i \in 1..2 : dc.swapExecuted[i].jobId = id

\* ---------------------------------------------------------------------- C2
\* C2: in every reachable state, settleJob on a job that is Complete, Failed
\* or Refunded, and refundJob on a job that is Complete or Refunded, reverts
\* (with InvalidJobStatus when the caller is the backend or the owner) and
\* leaves the whole storage and every balance as it was, whoever calls: after
\* the first settlement every further settlement attempt is rejected.
C2_TerminalCallsRejected ==
    \A id \in ValidJobs, caller \in Callers :
        /\ dc.jobs[id].status \in Terminal =>
            \A g \in GasCosts :
                LET r == settleJob(dc, now, caller, id, g) IN
                /\ r.err # "ok"
                /\ r.st = dc
                /\ Authorized(caller) => r.err = "InvalidJobStatus"
        /\ dc.jobs[id].status \in {Complete, Refunded} =>
                LET r == refundJob(dc, caller, id) IN
                /\ r.err # "ok"
                /\ r.st = dc
                /\ Authorized(caller) => r.err = "InvalidJobStatus"

\* a settled job while both the backend and the owner may call settleJob
C2_Witness ==
    \E id \in ValidJobs :
        /\ dc.jobs[id].status = Complete
        /\ dc.backend = BackendKey
        /\ settleJob(dc, now, BackendKey, id, 2).err = "InvalidJobStatus"
        /\ settleJob(dc, now, Owner, id, 2).err = "InvalidJobStatus"

\* ---------------------------------------------------------------------- C3
\* C3: every settleJob call that does not revert, on a job whose totalAmount
\* (swappedAmount if > 0, else receivedAmount) is below
\* MIN_CONSOLIDATION_USD or is at most gasCost + serviceFee, leaves the job
\* Failed, moves no token, and leaves netAmount, serviceFee,
\* totalFeesCollected and totalConsolidated as they were.
C3_SmallSettlementFails ==
    \A id \in ValidJobs, caller \in Callers, g \in GasCosts :
        LET job == dc.jobs[id]
            total == IF job.swappedAmount > 0 THEN job.swappedAmount
                     ELSE job.receivedAmount
            fee == (total * dc.serviceFeePercent) \div 10000
            r == settleJob(dc, now, caller, id, g)
        IN  (r.err = "ok" /\ (total < 1000000 \/ total - fee <= g)) =>
                /\ r.st.jobs[id].status = Failed
                /\ r.st.bal = dc.bal
                /\ r.st.jobs[id].netAmount = job.netAmount
                /\ r.st.jobs[id].serviceFee = job.serviceFee
                /\ r.st.totalFeesCollected = dc.totalFeesCollected
                /\ r.st.totalConsolidated = dc.totalConsolidated

\* a job failed by a settlement below the floor, the funds still in the contract
C3_Witness ==
    \E id \in ValidJobs :
        /\ dc.jobs[id].status = Failed
        /\ dc.jobs[id].receivedAmount = 400000
        /\ dc.jobs[id].swappedAmount = 0
        /\ dc.jobs[id].netAmount = 0
        /\ dc.bal[usdc][This] = 400000

\* ---------------------------------------------------------------------- C4
\* C4: every settleJob call that does not revert, on a job in Receiving or
\* Swapping whose totalAmount is at least MIN_CONSOLIDATION_USD and greater
\* than gasCost + serviceFee, stores serviceFee = (totalAmount * feeBps) div
\* 10000 and netAmount = totalAmount - gasCost - serviceFee, moves exactly
\* netAmount of the target asset to the user and exactly serviceFee to the
\* owner, and leaves the job Complete; netAmount + serviceFee + gasCost =
\* totalAmount, and what leaves the contract is at most totalAmount.
C4_SettlementPaysNet ==
    \A id \in ValidJobs, caller \in Callers, g \in GasCosts :
        LET job == dc.jobs[id]
            total == IF job.swappedAmount > 0 THEN job.swappedAmount
                     ELSE job.receivedAmount
            fee == (total * dc.serviceFeePercent) \div 10000
            r == settleJob(dc, now, caller, id, g)
            after == r.st.jobs[id]
            t == job.targetAsset
        IN  (/\ r.err = "ok"
             /\ job.status \in {Receiving, Swapping}
             /\ total >= 1000000
             /\ total - fee > g) =>
                /\ after.status = Complete
                /\ after.serviceFee = fee
                /\ after.netAmount = total - g - fee
                /\ after.netAmount + after.serviceFee + g = total
                /\ r.st.bal[t][job.user] = dc.bal[t][job.user] + after.netAmount
                /\ r.st.bal[t][Owner] = dc.bal[t][Owner] + fee
                /\ r.st.bal[t][This] = dc.bal[t][This] - after.netAmount - fee
                /\ dc.bal[t][This] - r.st.bal[t][This] <= total
                /\ \A o \in Tokens \ {t} : r.st.bal[o] = dc.bal[o]

\* deliveries of 400000 and 600050, settled with gas cost 2 at 100 bps:
\* fee 10000 (10000.5 truncated), net 990048
C4_Witness ==
    \E id \in ValidJobs :
        /\ dc.jobs[id].status = Complete
        /\ dc.jobs[id].receivedAmount = 1000050
        /\ dc.jobs[id].swappedAmount = 0
        /\ dc.jobs[id].gasCostUSD = 2
        /\ dc.jobs[id].serviceFee = 10000
        /\ dc.jobs[id].netAmount = 990048
        /\ dc.bal[usdc][dc.jobs[id].user] = 990048
        /\ dc.bal[usdc][Owner] = 10000

\* ---------------------------------------------------------------------- C5
\* C5: a job's netAmount is 0 whenever its status is not Complete; a step
\* changes it only if the step is a settleJob call on that job that moves it
\* from another status to Complete; so it is written once and never again.
C5_NetAmountWrittenOnce ==
    /\ [](\A id \in AllJobIds :
            dc.jobs[id].status # Complete => dc.jobs[id].netAmount = 0)
    /\ [][\A id \in AllJobIds :
            dc'.jobs[id].netAmount # dc.jobs[id].netAmount =>
                /\ dc.jobs[id].status # Complete
                /\ dc'.jobs[id].status = Complete
                /\ \E caller \in Callers, g \in GasCosts :
                       dc' = settleJob(dc, now, caller, id, g).st]_vars

C5_Witness ==
    \E id \in ValidJobs :
        /\ dc.jobs[id].status = Complete
        /\ dc.jobs[id].netAmount > 0

\* ---------------------------------------------------------------------- C6
RECURSIVE SumAmounts(_)
SumAmounts(events) ==
    IF events = <<>> THEN 0
    ELSE Head(events).amount + SumAmounts(Tail(events))

DeliveriesTo(id) == SelectSeq(dc.assetReceived, LAMBDA e : e.jobId = id)

\* C6: in every reachable state every job's receivedAmount is the sum of the
\* amounts of the AssetReceived events for that job, in whatever order and
\* from whatever chains they came; and no step decreases it.
C6_ReceivedIsSumOfDeliveries ==
    /\ [](\A id \in AllJobIds :
            dc.jobs[id].receivedAmount = SumAmounts(DeliveriesTo(id)))
    /\ [][\A id \in AllJobIds :
            dc'.jobs[id].receivedAmount >= dc.jobs[id].receivedAmount]_vars

\* two deliveries from different chains, the later one from chain 1
C6_Witness ==
    \E id \in ValidJobs :
        /\ Len(DeliveriesTo(id)) = 2
        /\ DeliveriesTo(id)[1].sourceChain = 2
        /\ DeliveriesTo(id)[2].sourceChain = 1
        /\ dc.jobs[id].receivedAmount = 1000050

\* ---------------------------------------------------------------------- C7
\* C7: in every reachable state, an executeSwap call whose router call fails,
\* or whose measured output is below minAmountOut, reverts and leaves the
\* storage, the allowances and every balance as they were: the job keeps its
\* status and swappedAmount.
C7_FailedSwapChangesNothing ==
    \A id \in ValidJobs, caller \in Callers, fromToken \in SwapFromTokens,
       amount \in SwapAmounts, minAmountOut \in MinAmountsOut,
       ok \in BOOLEAN, out \in SwapOutputs, spent \in {0, 600050} :
        LET r == executeSwap(dc, caller, id, fromToken, amount, minAmountOut,
                             ok, spent, out)
            measured == IF fromToken = dc.jobs[id].targetAsset
                        THEN out - spent ELSE out
        IN  (~ok \/ measured < minAmountOut) =>
                /\ r.err # "ok"
                /\ r.st = dc

\* a job in Receiving that holds the tokens to swap, where a swap paying
\* 940000 against a floor of 950000 gets as far as the slippage check
C7_Witness ==
    \E id \in ValidJobs :
        /\ dc.jobs[id].status = Receiving
        /\ dc.bal[dustToken][This] >= 600050
        /\ executeSwap(dc, Owner, id, dustToken, 600050, 950000,
                       TRUE, 600050, 940000).err = "SlippageExceeded"
        /\ executeSwap(dc, Owner, id, dustToken, 600050, 950000,
                       FALSE, 600050, 1000050).err = "SwapFailed"

\* ---------------------------------------------------------------------- C8
\* C8: every refundJob call that does not revert, on a Failed job whose
\* swappedAmount or receivedAmount is nonzero, moves exactly swappedAmount
\* (if > 0, else receivedAmount) of the target asset from the contract to
\* the user, nothing to the owner, changes no total, and leaves the job
\* Refunded; and refundJob on a Refunded job reverts, so a job is refunded
\* at most once.
C8_RefundInFullOnce ==
    \A id \in ValidJobs, caller \in Callers :
        LET job == dc.jobs[id]
            amt == IF job.swappedAmount > 0 THEN job.swappedAmount
                   ELSE job.receivedAmount
            r == refundJob(dc, caller, id)
            t == job.targetAsset
        IN  /\ (r.err = "ok" /\ job.status = Failed /\ amt > 0) =>
                /\ r.st.jobs[id].status = Refunded
                /\ r.st.bal[t][job.user] = dc.bal[t][job.user] + amt
                /\ r.st.bal[t][This] = dc.bal[t][This] - amt
                /\ r.st.bal[t][Owner] = dc.bal[t][Owner]
                /\ r.st.totalFeesCollected = dc.totalFeesCollected
                /\ r.st.totalConsolidated = dc.totalConsolidated
            /\ job.status = Refunded => r.err # "ok"

\* a job that was swapped, failed for fees and refunded the swapped amount
C8_Witness ==
    \E id \in ValidJobs :
        /\ dc.jobs[id].status = Refunded
        /\ dc.jobs[id].swappedAmount = 1000050
        /\ dc.bal[dc.jobs[id].targetAsset][dc.jobs[id].user] = 1000050

\* ---------------------------------------------------------------------- C9
\* C9: in every step, a GasRecord that is recovered stays recovered, and a
\* GasRecord that exists keeps its user, its sponsored value, its gas price
\* and its timestamp: it is never replaced or deleted, also not by a further
\* sponsorGas call with its jobId.
C9_RecordKeptAndRecoveredOnce ==
    [][\A id \in AllJobIds :
        LET old == pm.gasRecords[id]
            new == pm'.gasRecords[id]
        IN  /\ old.recovered => new.recovered
            /\ old.user # Zero =>
                /\ new.user = old.user
                /\ new.gasSponsored = old.gasSponsored
                /\ new.gasPriceWei = old.gasPriceWei
                /\ new.timestamp = old.timestamp]_vars

\* --------------------------------------------------------------------- C10
TimesRecovered(id) == Len(SelectSeq(pm.gasRecovered, LAMBDA j : j = id))

\* C10: in every reachable state, markGasRecovered and updateGasCost on a
\* recovered GasRecord revert (with AlreadyRecovered for a caller allowed to
\* call) and leave the paymaster as it was; and no jobId has more than one
\* GasRecovered event: its cost was added to totalGasRecovered at most once.
C10_RecoveredAtMostOnce ==
    \A id \in AllJobIds :
        /\ pm.gasRecords[id].recovered =>
            /\ \A caller \in RecoverCallers :
                LET r == markGasRecovered(pm, caller, id) IN
                /\ r.err # "ok"
                /\ r.st = pm
                /\ onlyConsolidatorOrAuthorized(pm, caller) => r.err = "AlreadyRecovered"
            /\ \A caller \in SponsorCallers, gas \in ActualGas, price \in UpdatedEthPrices :
                LET r == updateGasCost(pm, caller, id, gas, price) IN
                /\ r.err # "ok"
                /\ r.st = pm
                /\ onlyAuthorized(pm, caller) => r.err = "AlreadyRecovered"
        /\ TimesRecovered(id) <= 1

\* --------------------------------------------------------------------- C11
\* C11: in every reachable state of the consolidator and the paymaster
\* together, a GasRecord that is recovered belongs to a job whose status is
\* Complete.
C11_RecoveredOnlyWhenComplete ==
    \A id \in AllJobIds :
        pm.gasRecords[id].recovered => dc.jobs[id].status = Complete

\* --------------------------------------------------------------------- C12
\* C12: every step in which a job with a GasRecord becomes Complete (a
\* settleJob call that returns) leaves that GasRecord recovered.
C12_SettlementMarksRecovered ==
    [][\A id \in AllJobIds :
        (/\ dc.jobs[id].status # Complete
         /\ dc'.jobs[id].status = Complete
         /\ pm.gasRecords[id].user # Zero) => pm'.gasRecords[id].recovered]_vars

\* --------------------------------------------------------------------- C13
\* C13: in every reachable state, a sponsorGas request whose gas value would
\* take the user's cumulative sponsored value above maxGasPerUser, or whose
\* gas value is above maxGasPerJob, reverts and leaves userSponsoredGas,
\* userJobCount, lastJobTimestamp, totalGasSponsored and gasRecords as they
\* were; from an authorized caller outside the rate limit the error is
\* UserGasLimitExceeded in the first case and JobGasLimitExceeded otherwise.
C13_OverCapRejected ==
    \A caller \in SponsorCallers, user \in Users, id \in AllJobIds,
       gas \in EstimatedGas, price \in GasPrices, eth \in EthPrices :
        LET gasValue == gas * price
            overUser == pm.userSponsoredGas[user] + gasValue > pm.maxGasPerUser
            overJob == gasValue > pm.maxGasPerJob
            r == sponsorGas(pm, now, price, caller, user, id, gas, eth)
        IN  (overUser \/ overJob) =>
                /\ r.err # "ok"
                /\ r.st.userSponsoredGas = pm.userSponsoredGas
                /\ r.st.userJobCount = pm.userJobCount
                /\ r.st.lastJobTimestamp = pm.lastJobTimestamp
                /\ r.st.totalGasSponsored = pm.totalGasSponsored
                /\ r.st.gasRecords = pm.gasRecords
                /\ (/\ onlyAuthorized(pm, caller)
                    /\ now - pm.lastJobTimestamp[user] >= pm.minJobInterval) =>
                        r.err = IF overUser THEN "UserGasLimitExceeded"
                                ELSE "JobGasLimitExceeded"

\* alice has 5 of a cap of 8 sponsored and the pool is funded: a further 5
\* is refused for the per-user cap, in a fresh state 6 for the per-job cap
C13_Witness ==
    \E id \in AllJobIds :
        /\ pm.userSponsoredGas["alice"] = 5
        /\ pm.maxGasPerUser = 8
        /\ pm.balance >= 5
        /\ sponsorGas(pm, now, 1, Owner, "alice", id, 5, 2000).err = "UserGasLimitExceeded"

C15_RateLimit ==
    /\ [](\A user \in Users :
            LET early == now - pm.lastJobTimestamp[user] < pm.minJobInterval IN
            /\ canCreateJob(pm, now, user)[1] = ~early
            /\ early =>
                \A caller \in SponsorCallers, id \in AllJobIds, gas \in EstimatedGas,
                   price \in GasPrices, eth \in EthPrices :
                    LET r == sponsorGas(pm, now, price, caller, user, id, gas, eth) IN
                    /\ r.err # "ok"
                    /\ r.st = pm
                    /\ onlyAuthorized(pm, caller) => r.err = "RateLimitExceeded")
    /\ [][\A user \in Users :
            pm'.userJobCount[user] # pm.userJobCount[user] =>
                /\ now - pm.lastJobTimestamp[user] >= pm.minJobInterval
                /\ pm'.lastJobTimestamp[user] = now]_vars

\* alice was sponsored in this very hour and the pool could pay another job
C15_Witness ==
    \E id \in AllJobIds :
        /\ pm.userJobCount["alice"] = 1
        /\ pm.lastJobTimestamp["alice"] = now
        /\ pm.balance >= 5
        /\ canCreateJob(pm, now, "alice") = <<FALSE, pm.minJobInterval>>
        /\ sponsorGas(pm, now, 1, Owner, "alice", id, 5, 2000).err = "RateLimitExceeded"

\* --------------------------------------------------------------------- C16
\* C16: in every reachable state a sponsorGas request whose gas value is
\* above the ether balance of the paymaster reverts and changes nothing; from
\* an authorized caller, outside the rate limit and within both caps, the
\* error is InsufficientGasPool.
C16_PoolShortRejected ==
    \A caller \in SponsorCallers, user \in Users, id \in AllJobIds,
       gas \in EstimatedGas, price \in GasPrices, eth \in EthPrices :
        LET gasValue == gas * price
            r == sponsorGas(pm, now, price, caller, user, id, gas, eth)
        IN  pm.balance < gasValue =>
                /\ r.err # "ok"
                /\ r.st = pm
                /\ (/\ onlyAuthorized(pm, caller)
                    /\ now - pm.lastJobTimestamp[user] >= pm.minJobInterval
                    /\ pm.userSponsoredGas[user] + gasValue <= pm.maxGasPerUser
                    /\ gasValue <= pm.maxGasPerJob) => r.err = "InsufficientGasPool"

\* the pool was funded and then withdrawn to nothing
C16_Witness ==
    \E id \in AllJobIds :
        /\ pm.totalGasPool > 0
        /\ pm.balance < 5
        /\ sponsorGas(pm, now, 1, Owner, "alice", id, 5, 2000).err = "InsufficientGasPool"

\* --------------------------------------------------------------------- C17
\* C17: from every reachable state, two sponsorGas requests for the same
\* user mined one after the other (the second in the same block or a later
\* one, in either order of the two) are not both granted when the two gas
\* values together would take the user's cumulative sponsored value above
\* maxGasPerUser: the second is checked against the counter the first wrote.
C17_NoDoubleGrantOverCap ==
    \A user \in Users, c1, c2 \in SponsorCallers, id1, id2 \in AllJobIds,
       g1, g2 \in EstimatedGas, price \in GasPrices, eth \in EthPrices,
       later \in {now, now + 1} :
        LET r1 == sponsorGas(pm, now, price, c1, user, id1, g1, eth)
            r2 == sponsorGas(r1.st, later, price, c2, user, id2, g2, eth)
        IN  pm.userSponsoredGas[user] + g1 * price + g2 * price > pm.maxGasPerUser
                => ~(r1.err = "ok" /\ r2.err = "ok")

\* the first of two requests of 5 was granted under a cap of 8, and the
\* second, outside the rate limit and payable by the pool, is refused
C17_Witness ==
    \E id \in AllJobIds :
        /\ pm.userSponsoredGas["alice"] = 5
        /\ pm.userJobCount["alice"] = 1
        /\ pm.maxGasPerUser = 8
        /\ now - pm.lastJobTimestamp["alice"] >= pm.minJobInterval
        /\ pm.balance >= 5
        /\ sponsorGas(pm, now, 1, Owner, "alice", id, 5, 2000).err = "UserGasLimitExceeded"

\* --------------------------------------------------------------------- C18
\* C18: in every reachable state, createJob, executeSwap, settleJob and
\* refundJob from a caller that is neither the backend nor the owner revert
\* with UnauthorizedSender and leave the consolidator (jobs, totals,
\* balances) as it was; sponsorGas and updateGasCost from a caller that is
\* neither an authorized sponsor nor the owner revert with
\* UnauthorizedSponsor and leave the paymaster as it was.
C18_UnauthorizedRejected ==
    /\ \A caller \in Callers :
        (caller # dc.backend /\ caller # Owner) =>
            /\ \A user \in JobUsers, targetAsset \in TargetAssets,
                  expectedAmount \in ExpectedAmounts, sourceChains \in SourceChainLists :
                LET r == createJob(dc, now, caller, user, targetAsset,
                                   expectedAmount, sourceChains) IN
                r.err = "UnauthorizedSender" /\ r.st = dc
            /\ \A id \in AllJobIds :
                /\ \A fromToken \in SwapFromTokens, amount \in SwapAmounts,
                      minAmountOut \in MinAmountsOut, ok \in BOOLEAN,
                      out \in SwapOutputs, spent \in {0, 600050} :
                    LET r == executeSwap(dc, caller, id, fromToken, amount,
                                         minAmountOut, ok, spent, out) IN
                    r.err = "UnauthorizedSender" /\ r.st = dc
                /\ \A g \in GasCosts :
                    LET r == settleJob(dc, now, caller, id, g) IN
                    r.err = "UnauthorizedSender" /\ r.st = dc
                /\ LET r == refundJob(dc, caller, id) IN
                    r.err = "UnauthorizedSender" /\ r.st = dc
    /\ \A caller \in SponsorCallers :
        (~pm.authorizedSponsors[caller] /\ caller # Owner) =>
            \A id \in AllJobIds :
                /\ \A user \in Users, gas \in EstimatedGas, price \in GasPrices,
                      eth \in EthPrices :
                    LET r == sponsorGas(pm, now, price, caller, user, id, gas, eth) IN
                    r.err = "UnauthorizedSponsor" /\ r.st = pm
                /\ \A gas \in ActualGas, eth \in UpdatedEthPrices :
                    LET r == updateGasCost(pm, caller, id, gas, eth) IN
                    r.err = "UnauthorizedSponsor" /\ r.st = pm

\* a backend is configured and is an authorized sponsor, a job is waiting
\* and has a gas record: the backend's settleJob and updateGasCost would go
\* through, the same calls from a stranger are refused
C18_Witness ==
    \E id \in ValidJobs :
        /\ dc.backend = BackendKey
        /\ pm.authorizedSponsors[BackendKey]
        /\ dc.jobs[id].status = Receiving
        /\ pm.gasRecords[id].user # Zero
        /\ settleJob(dc, now, BackendKey, id, 2).err = "ok"
        /\ settleJob(dc, now, Mallory, id, 2).err = "UnauthorizedSender"
        /\ updateGasCost(pm, BackendKey, id, 4, 3000).err = "ok"
        /\ updateGasCost(pm, Mallory, id, 4, 3000).err = "UnauthorizedSponsor"

\* --------------------------------------------------------------------- C19
\* C19: in every reachable state, a delivery whose source chain is not
\* supported, or whose sender is not the trusted sender stored for that
\* chain, reverts and leaves every job's status and receivedAmount (and the
\* rest of the consolidator) as it was; this covers a chain that was
\* supported and has been removed.
C19_UntrustedDeliveryRejected ==
    \A d \in Deliveries, sender \in MessageSenders, id \in AllJobIds :
        LET r == _ccipReceive(dc, d[1], sender, id, d[2], d[3]) IN
        (~dc.supportedSourceChains[d[1]] \/ sender # dc.trustedSenders[d[1]]) =>
            /\ r.err # "ok"
            /\ \A j \in AllJobIds :
                /\ r.st.jobs[j].status = dc.jobs[j].status
                /\ r.st.jobs[j].receivedAmount = dc.jobs[j].receivedAmount
            /\ r.st = dc

\* chain 1 delivered to a job and was removed afterwards while chain 2 is
\* supported: chain 1's sender is refused on chain 1 and on chain 2
C19_Witness ==
    \E id \in ValidJobs :
        /\ dc.jobs[id].status = Receiving
        /\ Len(dc.assetReceived) = 1
        /\ dc.assetReceived[1].sourceChain = 1
        /\ ~dc.supportedSourceChains[1]
        /\ dc.supportedSourceChains[2]
        /\ ~dc.paused
        /\ _ccipReceive(dc, 1, SenderOf(1), id, usdc, 400000).err = "UnsupportedSourceChain"
        /\ _ccipReceive(dc, 2, SenderOf(1), id, dustToken, 600050).err = "UnauthorizedSender"
        /\ _ccipReceive(dc, 2, SenderOf(2), id, dustToken, 600050).err = "ok"

\* --------------------------------------------------------------------- C20
\* C20: in every reachable state, createJob with a target asset other than
\* usdc and weth, with the zero user or with expectedAmount = 0 reverts, and
\* a delivery, executeSwap, settleJob or refundJob naming a job id whose user
\* is unset reverts, and none changes anything; from the backend or owner
\* while not paused (for a delivery: from the trusted sender of a supported
\* chain) the error is InvalidTargetAsset, ZeroAddress or InvalidAmount (the
\* first that applies) and JobNotFound; and a job whose user is unset holds
\* no data.
C20_InvalidInputRejected ==
    /\ \A caller \in Callers, user \in JobUsers, targetAsset \in TargetAssets,
          expectedAmount \in ExpectedAmounts, sourceChains \in SourceChainLists :
        LET r == createJob(dc, now, caller, user, targetAsset, expectedAmount,
                           sourceChains)
            badAsset == targetAsset \notin {usdc, weth}
        IN  (badAsset \/ user = Zero \/ expectedAmount = 0) =>
                /\ r.err # "ok"
                /\ r.st = dc
                /\ ((caller = dc.backend \/ caller = Owner) /\ ~dc.paused) =>
                    r.err = IF badAsset THEN "InvalidTargetAsset"
                            ELSE IF user = Zero THEN "ZeroAddress"
                            ELSE "InvalidAmount"
    /\ \A id \in AllJobIds :
        dc.jobs[id].user = Zero =>
            /\ dc.jobs[id] = EmptyJob
            /\ \A d \in Deliveries, sender \in MessageSenders :
                LET r == _ccipReceive(dc, d[1], sender, id, d[2], d[3]) IN
                /\ r.err # "ok"
                /\ r.st = dc
                /\ (/\ ~dc.paused
                    /\ dc.supportedSourceChains[d[1]]
                    /\ sender = dc.trustedSenders[d[1]]) => r.err = "JobNotFound"
            /\ \A caller \in Callers :
                LET known == caller = dc.backend \/ caller = Owner IN
                /\ \A fromToken \in SwapFromTokens, amount \in SwapAmounts,
                      minAmountOut \in MinAmountsOut, ok \in BOOLEAN,
                      out \in SwapOutputs, spent \in {0, 600050} :
                    LET r == executeSwap(dc, caller, id, fromToken, amount,
                                         minAmountOut, ok, spent, out) IN
                    r.err # "ok" /\ r.st = dc /\ (known => r.err = "JobNotFound")
                /\ \A g \in GasCosts :
                    LET r == settleJob(dc, now, caller, id, g) IN
                    r.err # "ok" /\ r.st = dc /\ (known => r.err = "JobNotFound")
                /\ LET r == refundJob(dc, caller, id) IN
                    r.err # "ok" /\ r.st = dc /\ (known => r.err = "JobNotFound")

\* one job exists, a chain is supported and nothing is paused: every invalid
\* createJob and every call naming a job that was never created gets its
\* own error
C20_Witness ==
    \E id \in AllJobIds :
        /\ dc.jobs[id].user = Zero
        /\ ValidJobs # {}
        /\ dc.supportedSourceChains[1]
        /\ ~dc.paused
        /\ createJob(dc, now, Owner, "alice", dustToken, 100, <<1, 2>>).err = "InvalidTargetAsset"
        /\ createJob(dc, now, Owner, Zero, usdc, 100, <<1, 2>>).err = "ZeroAddress"
        /\ createJob(dc, now, Owner, "alice", usdc, 0, <<1, 2>>).err = "InvalidAmount"
        /\ _ccipReceive(dc, 1, SenderOf(1), id, usdc, 400000).err = "JobNotFound"
        /\ settleJob(dc, now, Owner, id, 2).err = "JobNotFound"
        /\ refundJob(dc, Owner, id).err = "JobNotFound"

\* --------------------------------------------------------------------- C21
\* C21: in every reachable state, for a caller that is the backend or the
\* owner, executeSwap and settleJob on a job in Created, and refundJob on a
\* job in Created, Receiving or Swapping, revert with InvalidJobStatus and
\* change nothing; a settleJob call returns only for a job in Receiving or
\* Swapping and a refundJob call only for a job in Failed.
C21_WrongStateRejected ==
    \A id \in ValidJobs, caller \in Callers :
        LET status == dc.jobs[id].status
            known == caller = dc.backend \/ caller = Owner
            refund == refundJob(dc, caller, id)
        IN  /\ \A g \in GasCosts :
                LET r == settleJob(dc, now, caller, id, g) IN
                /\ (known /\ status = Created) =>
                        r.err = "InvalidJobStatus" /\ r.st = dc
                /\ r.err = "ok" => status \in {Receiving, Swapping}
            /\ (known /\ status = Created) =>
                \A fromToken \in SwapFromTokens, amount \in SwapAmounts,
                   minAmountOut \in MinAmountsOut, ok \in BOOLEAN,
                   out \in SwapOutputs, spent \in {0, 600050} :
                    LET r == executeSwap(dc, caller, id, fromToken, amount,
                                         minAmountOut, ok, spent, out) IN
                    r.err = "InvalidJobStatus" /\ r.st = dc
            /\ (known /\ status \in {Created, Receiving, Swapping}) =>
                    refund.err = "InvalidJobStatus" /\ refund.st = dc
            /\ refund.err = "ok" => status = Failed

\* a job that was created and not yet delivered to, with a backend set
C21_Witness ==
    \E id \in ValidJobs :
        /\ dc.jobs[id].status = Created
        /\ dc.backend = BackendKey
        /\ settleJob(dc, now, BackendKey, id, 2).err = "InvalidJobStatus"
        /\ refundJob(dc, BackendKey, id).err = "InvalidJobStatus"
        /\ executeSwap(dc, BackendKey, id, dustToken, 600050, 950000,
                       TRUE, 600050, 1000050).err = "InvalidJobStatus"

\* ------------------------------------------------------------ C22 .. C28
\* a getBestQuote call that has returned
BestQuoteReturned == ag.fn = "getBestQuote" /\ ag.pc = "done"

\* the sources whose call produced a quote
Succeeded == {s \in SourceNames : ag.quotes[s] # Null /\ ag.quotes[s] # Pending}

\* position of a source in the order the quotes are collected in
Priority(s) == CHOOSE i \in 1..Len(Sources) : Sources[i] = s

\* C22: a quote returned by getBestQuote has a netOutput at least that of
\* every candidate in its allQuotes, allQuotes is in descending order of
\* netOutput, and it lists each source that returned a quote exactly once and
\* no other source.
C22_BestIsMaximal ==
    (BestQuoteReturned /\ ag.result # Null) =>
        LET all == ag.result.allQuotes IN
        /\ \A i \in 1..Len(all) : ag.result.netOutput >= all[i].netOutput
        /\ \A i, j \in 1..Len(all) : i < j => all[i].netOutput >= all[j].netOutput
        /\ {all[i].aggregator : i \in 1..Len(all)} = Succeeded
        /\ Len(all) = Cardinality(Succeeded)

C22_Witness ==
    /\ BestQuoteReturned
    /\ ag.result # Null
    /\ Len(ag.result.allQuotes) = 3
    /\ ag.result.aggregator = "lifi"
    /\ ag.result.netOutput > ag.result.allQuotes[3].netOutput

\* the fee of a source in whole basis points, as listed in AGGREGATOR_FEES
ListedFeeBps(s) == IF s = "0x" THEN 15 ELSE 0

\* C23: the netOutput of every candidate is gross - t, where t is the
\* integer quotient of gross * feeBps by 10000 (truncated, never rounded up)
\* and feeBps is the source's fee in whole basis points; the returned best
\* quote carries the same value as its entry in allQuotes.
C23_NetOutputTruncates ==
    (BestQuoteReturned /\ ag.result # Null) =>
        LET all == ag.result.allQuotes IN
        /\ \A i \in 1..Len(all) :
            LET gross == all[i].buyAmount
                bps == ListedFeeBps(all[i].aggregator)
                t == gross - all[i].netOutput
            IN  /\ gross = ag.quotes[all[i].aggregator].buyAmount
                /\ t >= 0
                /\ t * 10000 <= gross * bps
                /\ gross * bps < (t + 1) * 10000
        /\ ag.result.netOutput = all[1].netOutput
        /\ ag.result.buyAmount = all[1].buyAmount

C23_Witness ==
    /\ BestQuoteReturned
    /\ ag.result # Null
    /\ ag.result.aggregator = "0x"
    /\ ag.result.buyAmount = 1000
    /\ ag.result.netOutput = 999

\* C24: whichever sources fail, getBestQuote returns: null exactly when no
\* source produced a quote, and otherwise a quote ranked from exactly the
\* sources that succeeded; when one source succeeded the result is its quote.
C24_SourceFailuresSwallowed ==
    BestQuoteReturned =>
        /\ ag.result.kind \in {"null", "quote"}
        /\ ag.result = Null <=> Succeeded = {}
        /\ ag.result # Null =>
            /\ ag.result.aggregator \in Succeeded
            /\ \A s \in SourceNames :
                (s \in Succeeded) <=>
                    \E i \in 1..Len(ag.result.allQuotes) :
                        /\ ag.result.allQuotes[i].aggregator = s
                        /\ ag.result.allQuotes[i].buyAmount = ag.quotes[s].buyAmount
            /\ \A s \in SourceNames : Succeeded = {s} =>
                /\ ag.result.aggregator = s
                /\ ag.result.buyAmount = ag.quotes[s].buyAmount
                /\ Len(ag.result.allQuotes) = 1

C24_Witness ==
    /\ BestQuoteReturned
    /\ Succeeded = {"0x"}
    /\ ag.result # Null
    /\ ag.result.aggregator = "0x"
    /\ ag.result.netOutput = 999

\* C25: candidates of a getBestQuote call with equal netOutput are listed in
\* the order 0x, 1inch, Paraswap, Li.Fi, and the returned best quote is the
\* first entry of the list.
C25_TiesInSourceOrder ==
    (BestQuoteReturned /\ ag.result # Null) =>
        LET all == ag.result.allQuotes IN
        /\ \A i, j \in 1..Len(all) :
            (i < j /\ all[i].netOutput = all[j].netOutput)
                => Priority(all[i].aggregator) < Priority(all[j].aggregator)
        /\ ag.result.aggregator = all[1].aggregator

C25_Witness ==
    /\ BestQuoteReturned
    /\ ag.result # Null
    /\ Len(ag.result.allQuotes) = 4
    /\ ag.result.aggregator = "0x"
    /\ ag.result.allQuotes[2].aggregator = "1inch"
    /\ ag.result.allQuotes[3].aggregator = "paraswap"
    /\ ag.result.allQuotes[4].aggregator = "lifi"
    /\ ag.result.allQuotes[4].netOutput = ag.result.netOutput

\* C26: a getBestQuote call that has been started returns, whether or not
\* the price sources ever answer.
C26_BestQuoteReturns ==
    (ag.fn = "getBestQuote" /\ ag.pc = "quoting") ~> (ag.pc = "done")

\* C27: getSwapCalldata turns to the default source 0x only after it has
\* tried to obtain the payload of every ranked candidate.
C27_NextRankedTried ==
    (ag.fn = "getSwapCalldata" /\ ag.pc = "fallback0x") =>
        \A i \in 1..Len(ag.best.allQuotes) :
            \E k \in 1..Len(ag.attempted) :
                ag.attempted[k] = ag.best.allQuotes[i].aggregator

\* C28: what getSwapCalldata returns is null or carries calldata, and the
\* calldata comes from a response of the source the result names.
C28_FailsClosed ==
    (ag.fn = "getSwapCalldata" /\ ag.pc = "done") =>
        \/ ag.result = Null
        \/ /\ ag.result.data # Undefined
           /\ ag.result.to # Undefined
           /\ ag.result.data.from = ag.result.aggregator

\* ------------------------------------------------------------------- C30
\* the jobs that exist
ExistingJobs == {id \in JobKeys : dc.jobs[id].user # Zero}

\* C30: the identifier a createJob call returns is not the identifier of an
\* existing job and the call writes no existing job record; no call removes
\* a job record or changes the user or the creation time it was made with.
C30_JobIdsUnique ==
    /\ [](\A caller \in Callers, user \in JobUsers, targetAsset \in TargetAssets,
            expectedAmount \in ExpectedAmounts, sourceChains \in SourceChainLists :
            LET r == createJob(dc, now, caller, user, targetAsset, expectedAmount,
                               sourceChains)
                jobId == r.st.userJobs[user][Len(r.st.userJobs[user])]
            IN  r.err = "ok" =>
                    /\ jobId \notin ExistingJobs
                    /\ \A u \in Users : \A k \in 1..Len(dc.userJobs[u]) :
                            dc.userJobs[u][k] # jobId
                    /\ r.st.jobs[jobId].user = user
                    /\ \A id \in ExistingJobs : r.st.jobs[id] = dc.jobs[id])
    /\ [][\A id \in ExistingJobs :
            /\ dc'.jobs[id].user = dc.jobs[id].user
            /\ dc'.jobs[id].createdAt = dc.jobs[id].createdAt
            /\ dc'.jobs[id].targetAsset = dc.jobs[id].targetAsset
            /\ dc'.jobs[id].expectedAmount = dc.jobs[id].expectedAmount]_vars
    /\ [](\A u \in Users : \A k \in 1..Len(dc.userJobs[u]) :
            /\ dc.userJobs[u][k] \in ExistingJobs
            /\ \A l \in 1..Len(dc.userJobs[u]) :
                    dc.userJobs[u][k] = dc.userJobs[u][l] => k = l)

C30_Witness ==
    /\ Cardinality(ExistingJobs) = 2
    /\ \E u \in Users :
        /\ Len(dc.userJobs[u]) = 2
        /\ dc.jobs[dc.userJobs[u][1]].createdAt = dc.jobs[dc.userJobs[u][2]].createdAt
        /\ dc.jobs[dc.userJobs[u][1]].status = Complete

\* ------------------------------------------------------------------- C29
\* C29: in DustConsolidator and in DustConsolidatorMVP serviceFeePercent is
\* at most MAX_SERVICE_FEE; setServiceFee with a larger value is rejected,
\* with FeeTooHigh when the owner calls, and changes nothing; the fee of
\* every settled job is at most 5% of the amount settled.
C29_FeeAtMostFivePercent ==
    /\ dc.serviceFeePercent <= MAX_SERVICE_FEE
    /\ mvp.serviceFeePercent <= MAX_SERVICE_FEE
    /\ \A caller \in AdminCallers, newFee \in FeeChoices \cup {MAX_SERVICE_FEE, MAX_SERVICE_FEE + 1} :
        newFee > MAX_SERVICE_FEE =>
            LET r == setServiceFee(dc, caller, newFee)
                m == setServiceFeeMVP(mvp, caller, newFee)
            IN  /\ r.err # "ok" /\ r.st = dc
                /\ m.err # "ok" /\ m.st = mvp
                /\ caller = Owner => r.err = "FeeTooHigh" /\ m.err = "FeeTooHigh"
    /\ \A id \in ValidJobs : dc.jobs[id].status = Complete =>
        dc.jobs[id].serviceFee * FEE_DENOMINATOR
            <= TotalAmount(dc.jobs[id]) * MAX_SERVICE_FEE
    /\ \A k \in 1..Len(mvp.jobs) :
        mvp.jobs[k].serviceFee * FEE_DENOMINATOR
            <= (mvp.jobs[k].outputAmount + mvp.jobs[k].serviceFee) * MAX_SERVICE_FEE

C29_Witness ==
    /\ mvp.serviceFeePercent = MAX_SERVICE_FEE
    /\ \E k \in 1..Len(mvp.jobs) :
        /\ mvp.jobs[k].serviceFee = 50505
        /\ mvp.jobs[k].outputAmount = 959596
    /\ \E id \in ValidJobs :
        /\ dc.jobs[id].status = Complete
        /\ dc.jobs[id].serviceFee > 0

\* ------------------------------------------------------------------- C33
\* C33: every job recorded by DustConsolidatorMVP, by consolidate or by
\* depositDirect, pays its user at least MIN_CONSOLIDATION.
C33_MvpJobsAboveMinimum ==
    \A k \in 1..Len(mvp.jobs) : mvp.jobs[k].outputAmount >= MIN_CONSOLIDATION
\* ------------------------------------------------------------------- C34
\* what the user of a job holds of the job's target asset
PaidTo(S, id) == S.bal[S.jobs[id].targetAsset][S.jobs[id].user]

\* what the consolidator holds of the job's target asset
HeldFor(S, id) == S.bal[S.jobs[id].targetAsset][This]

LargerOf(a, b) == IF a >= b THEN a ELSE b

\* what a job has paid its user at most: netAmount once Complete, the larger
\* of swappedAmount and receivedAmount once Refunded, nothing before
PaidOut(S, id) ==
    IF S.jobs[id].status = Complete THEN S.jobs[id].netAmount
    ELSE IF S.jobs[id].status = Refunded
         THEN LargerOf(S.jobs[id].swappedAmount, S.jobs[id].receivedAmount)
         ELSE 0

\* the jobs of user u that pay in token t
JobsPaying(S, u, t) ==
    {id \in JobKeys : S.jobs[id].user = u /\ S.jobs[id].targetAsset = t}

\* C34: the user of a job is paid in one step only, the step in which the job
\* becomes Complete (netAmount) or Refunded (the refund amount); before that
\* step nothing has been paid for the job, after it nothing more is paid, and
\* what leaves the contract in that step is at most the larger of
\* swappedAmount and receivedAmount.  A user's balance of a token is thus at
\* most the sum over that user's finished jobs paying in that token.
C34_PaidAtMostOnce ==
    /\ [](\A u \in Users, t \in Tokens :
            dc.bal[t][u] <= SumOver([id \in JobKeys |-> PaidOut(dc, id)],
                                    JobsPaying(dc, u, t)))
    /\ [][/\ \A u \in Users, t \in Tokens :
                dc'.bal[t][u] # dc.bal[t][u] =>
                    \E id \in JobsPaying(dc, u, t) :
                        LET job == dc.jobs[id]
                            after == dc'.jobs[id]
                        IN  /\ job.status \notin {Complete, Refunded}
                            /\ \/ after.status = Complete
                                    /\ dc'.bal[t][u] = dc.bal[t][u] + after.netAmount
                               \/ after.status = Refunded
                                    /\ dc'.bal[t][u] = dc.bal[t][u] + RefundAmount(job)
                            /\ \A other \in JobKeys \ {id} :
                                    dc'.jobs[other] = dc.jobs[other]
          /\ \A id \in ValidJobs :
                LET job == dc.jobs[id]
                    after == dc'.jobs[id]
                IN  /\ (job.status # after.status /\ after.status \in {Complete, Refunded}) =>
                        /\ HeldFor(dc, id) - HeldFor(dc', id)
                                <= LargerOf(job.swappedAmount, job.receivedAmount)
                        /\ PaidTo(dc', id) > PaidTo(dc, id)
                    /\ job.status \in {Complete, Refunded} => after.status = job.status]_vars

\* a job whose settlement failed and that was then refunded, once
C34_Witness ==
    \E id \in ValidJobs :
        /\ dc.jobs[id].status = Refunded
        /\ dc.jobs[id].netAmount = 0
        /\ PaidTo(dc, id) = dc.jobs[id].receivedAmount
        /\ PaidTo(dc, id) > 0

\* ------------------------------------------------------------------- C35
\* C35: no step changes a job that is Complete or Refunded; in particular a
\* delivery addressed to it leaves its receivedAmount as it was.
C35_TerminalJobUnchanged ==
    [][\A id \in ValidJobs :
        dc.jobs[id].status \in {Complete, Refunded} => dc'.jobs[id] = dc.jobs[id]]_vars

\* ------------------------------------------------------------------- C36
\* the input amounts of the SwapExecuted events of a job, added up
RECURSIVE SumAmountsIn(_)
SumAmountsIn(events) ==
    IF events = <<>> THEN 0
    ELSE Head(events).amountIn + SumAmountsIn(Tail(events))

SwapsOf(id) == SelectSeq(dc.swapExecuted, LAMBDA e : e.jobId = id)

\* C36: the input amounts of the successful executeSwap calls of a job add
\* up to at most the job's receivedAmount.
C36_SwapsWithinReceived ==
    \A id \in ValidJobs : SumAmountsIn(SwapsOf(id)) <= dc.jobs[id].receivedAmount

\* ------------------------------------------------------------------- C37
\* the sponsored value of a GasRecord that is not yet recovered
Outstanding ==
    [id \in AllJobIds |->
        IF pm.gasRecords[id].user # Zero /\ ~pm.gasRecords[id].recovered
        THEN pm.gasRecords[id].gasSponsored ELSE 0]

\* C37: the sponsored values of the unrecovered GasRecords add up to at most
\* the ether the paymaster holds.
C37_SponsorshipBacked == SumOver(Outstanding, AllJobIds) <= pm.balance

Sufficient(id) ==
    dc.jobs[id].user # Zero /\ HeldFor(dc, id) >= TotalAmount(dc.jobs[id])

Funded(id) == dc.jobs[id].user # Zero /\ dc.jobs[id].receivedAmount > 0

\* C38: no job is ever seen in Settling; a settleJob call that returns on a
\* Receiving or Swapping job leaves it Complete or Failed and a refundJob call
\* that returns on a Failed job with funds leaves it Refunded; while the
\* contract holds enough of the target asset such a call exists; and with an
\* operator who keeps calling, a job that has received a positive amount
\* becomes Complete or Refunded unless the contract runs short of the asset.
C38_FundedJobsFinish ==
    /\ [](\A id \in ValidJobs :
            LET job == dc.jobs[id]
                refund == refundJob(dc, Owner, id)
            IN  /\ job.status # Settling
                /\ \A g \in GasCosts :
                    LET r == settleJob(dc, now, Owner, id, g) IN
                    (r.err = "ok" /\ job.status \in {Receiving, Swapping})
                        => r.st.jobs[id].status \in {Complete, Failed}
                /\ (Funded(id) /\ Sufficient(id) /\ job.status \in {Receiving, Swapping})
                        => \E g \in GasCosts : settleJob(dc, now, Owner, id, g).err = "ok"
                /\ (Funded(id) /\ Sufficient(id) /\ job.status = Failed)
                        => refund.err = "ok" /\ refund.st.jobs[id].status = Refunded)
    /\ \A id \in AllJobIds :
            (Funded(id) /\ dc.jobs[id].status \in {Receiving, Swapping, Failed})
                ~> (dc.jobs[id].status \in {Complete, Refunded} \/ ~Sufficient(id))

\* a job that received funds, failed at settlement and was refunded while
\* the contract still holds the asset for a further delivery
C38_Witness ==
    \E id \in ValidJobs :
        /\ Funded(id)
        /\ dc.jobs[id].status = Refunded
        /\ dc.jobs[id].swappedAmount = 0
        /\ PaidTo(dc, id) = 400000
\* ------------------------------------------------------------------- C31
\* C31: the cross-chain message round-trips exactly.  Whatever (jobId, token,
\* amount) sendDust is called with, the one message it hands to the router
\* carries a payload that decodes to the same (jobId, token, amount) and a
\* token transfer of that token and amount; and when the consolidator
\* executes a message sent by sendDust, the job named in the call has its
\* receivedAmount increased by exactly the token amount sent with the
\* message, and the AssetReceived event repeats the job id, token and amount
\* of the call.
Passed(rec) == [jobId |-> rec.jobId, token |-> rec.token, amount |-> rec.amount]

C40_NativeSendSucceeds ==
    \A value \in {1, 400000}, jobId \in AllJobIds, user \in Users :
        LET r == sendNativeETH(ds, now, BackendKey, value, jobId, user, weth, TRUE, 1) IN
        (/\ ds.backend = BackendKey /\ ~ds.paused /\ ds.supportedTokens[weth]
         /\ ds.link >= 1 /\ ds.sent < MaxSends)
            => /\ r.err = "ok"
               /\ r.st.sent = ds.sent + 1
               /\ Cardinality(r.st.inflight) = Cardinality(ds.inflight) + 1
               /\ r.st.sendRecords[r.st.sent] =
                    [user |-> user, token |-> weth, amount |-> value, jobId |-> jobId,
                     ccipMessageId |-> r.st.sent, timestamp |-> now, success |-> TRUE]
\* ------------------------------------------------------------------- C32
\* C32: the estimate estimateFees returns has netAmount equal to the larger
\* of zero and the gross amount less the gas, bridge, service and swap fees
\* (to the cent), and worthIt true exactly when that returned netAmount is at
\* least DUST_CONFIG.minProfitableUSD.
C32_WorthItMatchesNet ==
    est.pc = "estimated" =>
        LET scan == est.scanResult
            e == est.estimate
            fees == scan.totalGasEstimate * 1000
                    + (scan.totalRecoverable * scan.chainCount + scan.chainCount * 50000)
                    + scan.totalRecoverable * 12 + scan.totalRecoverable * 3
        IN  /\ e.netAmount = toFixed2(LargerOf(0, scan.totalRecoverable * 1000 - fees))
            /\ e.worthIt <=> e.netAmount >= minProfitableUSD

====
